---- MODULE Spec2Model ----
(***************************************************************************)
(* ZyButler: validation of variables / STTL blocks / flags, synthesis of   *)
(* the zybot command, and its execution from a fixed working directory.    *)
(* Strings are sequences of one-character strings, so that the regular     *)
(* expressions, str.split, str.strip and shlex.split of the source are     *)
(* computed character by character.                                        *)
(***************************************************************************)
EXTENDS Integers, Sequences, FiniteSets, TLC

(* ----------------------------- characters ------------------------------ *)

LowerSeq ==
  <<"a","b","c","d","e","f","g","h","i","j","k","l","m",
    "n","o","p","q","r","s","t","u","v","w","x","y","z">>

UpperSeq ==
  <<"A","B","C","D","E","F","G","H","I","J","K","L","M",
    "N","O","P","Q","R","S","T","U","V","W","X","Y","Z">>

Digits == {"0","1","2","3","4","5","6","7","8","9"}

LowerCase == {LowerSeq[i] : i \in 1..26}

UpperCase == {UpperSeq[i] : i \in 1..26}

WhiteSpace == {" ", "\t", "\n", "\r"}

IsAlnumChar(c) == c \in Digits \cup LowerCase \cup UpperCase

\* [A-Za-z0-9_]
IsKeyChar(c) == IsAlnumChar(c) \/ c = "_"

UpperChar(c) ==
  IF c \in LowerCase THEN UpperSeq[CHOOSE i \in 1..26 : LowerSeq[i] = c] ELSE c

LowerChar(c) ==
  IF c \in UpperCase THEN LowerSeq[CHOOSE i \in 1..26 : UpperSeq[i] = c] ELSE c

(* ------------------------------- strings ------------------------------- *)

\* str.upper()
StrUpper(s) == [i \in 1..Len(s) |-> UpperChar(s[i])]

\* str.lower()
StrLower(s) == [i \in 1..Len(s) |-> LowerChar(s[i])]

\* str.isalnum(): non-empty and every character alphanumeric
IsAlnum(s) == Len(s) > 0 /\ \A i \in 1..Len(s) : IsAlnumChar(s[i])

\* str.isdigit() restricted to the \d+ use of the patterns
AllDigits(s) == Len(s) > 0 /\ \A i \in 1..Len(s) : s[i] \in Digits

RECURSIVE LStrip(_)
LStrip(s) ==
  IF s = <<>> THEN <<>>
  ELSE IF Head(s) \in WhiteSpace THEN LStrip(Tail(s)) ELSE s

RECURSIVE RStrip(_)
RStrip(s) ==
  IF s = <<>> THEN <<>>
  ELSE IF s[Len(s)] \in WhiteSpace THEN RStrip(SubSeq(s, 1, Len(s) - 1)) ELSE s

\* str.strip()
Strip(s) == RStrip(LStrip(s))

\* str.split() with no separator: maximal runs of non-whitespace
RECURSIVE SplitWS(_, _, _)
SplitWS(s, cur, out) ==
  IF s = <<>> THEN (IF cur = <<>> THEN out ELSE Append(out, cur))
  ELSE IF Head(s) \in WhiteSpace
       THEN SplitWS(Tail(s), <<>>, IF cur = <<>> THEN out ELSE Append(out, cur))
       ELSE SplitWS(Tail(s), Append(cur, Head(s)), out)

Split(s) == SplitWS(s, <<>>, <<>>)

\* index of the first occurrence of c in s, 0 when absent
FirstIndex(s, c) ==
  IF \E i \in 1..Len(s) : s[i] = c
  THEN CHOOSE i \in 1..Len(s) : s[i] = c /\ \A j \in 1..(i - 1) : s[j] # c
  ELSE 0

\* " ".join(list)
RECURSIVE Join(_)
Join(l) ==
  IF l = <<>> THEN <<>>
  ELSE IF Len(l) = 1 THEN l[1]
  ELSE l[1] \o <<" ">> \o Join(Tail(l))

RECURSIVE Rep(_, _)
Rep(c, n) == IF n = 0 THEN <<>> ELSE <<c>> \o Rep(c, n - 1)

(* ------------------------- constants / patterns ------------------------ *)

MIN_SERIAL_LEN == 10

ALLOWED_NON_DUT_KEYS == { <<"T","E","S","T","D","I","R">> }

EXECUTION_DIR == "C:\\RFS_CI\\GIT_REPO\\ST_Master\\mcd_validation_RFS\\RFS"

\* VAR_PAIR_PATTERN = ^[A-Za-z0-9_]+:[^\s]+$   ($ also matches before a final newline)
VAR_PAIR_PATTERN(kv) ==
  LET c == FirstIndex(kv, ":")
      rest == SubSeq(kv, c + 1, Len(kv))
      body == IF rest # <<>> /\ rest[Len(rest)] = "\n"
              THEN SubSeq(rest, 1, Len(rest) - 1) ELSE rest
  IN  /\ c > 1
      /\ \A i \in 1..(c - 1) : IsKeyChar(kv[i])
      /\ body # <<>>
      /\ \A i \in 1..Len(body) : body[i] \notin WhiteSpace

\* DUT_KEY_PATTERN = ^DUT(\d+)$ with re.IGNORECASE
DUT_KEY_PATTERN(k) ==
  /\ Len(k) >= 4
  /\ StrUpper(SubSeq(k, 1, 3)) = <<"D","U","T">>
  /\ AllDigits(SubSeq(k, 4, Len(k)))

(* ------------------------------ exceptions ----------------------------- *)

\* a raised exception: its class, the fixed part of its message and the
\* input interpolated into the message (<<>> when none is)
Raise(cls, text, arg) == [ok |-> FALSE, exc |-> cls, text |-> text, arg |-> arg]

Return(v) == [ok |-> TRUE, val |-> v]

(* ------------------------------ parse_vars ----------------------------- *)

normalize_key(key) == StrUpper(key)

\* kv.split(":", 1)
KeyOf(kv) == SubSeq(kv, 1, FirstIndex(kv, ":") - 1)

ValueOf(kv) == SubSeq(kv, FirstIndex(kv, ":") + 1, Len(kv))

\* parse_vars without the allow-list test on non-device keys
RECURSIVE ParseVarsLoop_NoAllowList(_, _, _)
ParseVarsLoop_NoAllowList(raw_tokens, i, pairs) ==
  IF i > Len(raw_tokens) THEN Return(pairs)
  ELSE LET kv == raw_tokens[i] IN
    IF ~VAR_PAIR_PATTERN(kv)
    THEN Raise("ValidationError", "Invalid KEY:VALUE format", kv)
    ELSE LET key == KeyOf(kv)
             value == ValueOf(kv)
             key_u == normalize_key(key)
         IN IF DUT_KEY_PATTERN(key_u)
                 /\ ((~IsAlnum(value)) \/ Len(value) < MIN_SERIAL_LEN)
            THEN Raise("ValidationError", "Invalid DUT serial", key)
            ELSE ParseVarsLoop_NoAllowList(raw_tokens, i + 1,
                                           Append(pairs, <<key_u, value>>))

\* parse_vars comparing the serial length with > instead of >=
RECURSIVE ParseVarsLoop_OffByOne(_, _, _)
ParseVarsLoop_OffByOne(raw_tokens, i, pairs) ==
  IF i > Len(raw_tokens) THEN Return(pairs)
  ELSE LET kv == raw_tokens[i] IN
    IF ~VAR_PAIR_PATTERN(kv)
    THEN Raise("ValidationError", "Invalid KEY:VALUE format", kv)
    ELSE LET key == KeyOf(kv)
             value == ValueOf(kv)
             key_u == normalize_key(key)
         IN IF DUT_KEY_PATTERN(key_u)
            THEN IF (~IsAlnum(value)) \/ Len(value) <= MIN_SERIAL_LEN
                 THEN Raise("ValidationError", "Invalid DUT serial", key)
                 ELSE ParseVarsLoop_OffByOne(raw_tokens, i + 1,
                                             Append(pairs, <<key_u, value>>))
            ELSE IF key_u \notin ALLOWED_NON_DUT_KEYS
                 THEN Raise("ValidationError", "Unknown variable key", key)
                 ELSE ParseVarsLoop_OffByOne(raw_tokens, i + 1,
                                             Append(pairs, <<key_u, value>>))

\* parse_vars dropping a token whose pair was already collected
RECURSIVE ParseVarsLoop_Dedup(_, _, _)
ParseVarsLoop_Dedup(raw_tokens, i, pairs) ==
  IF i > Len(raw_tokens) THEN Return(pairs)
  ELSE LET kv == raw_tokens[i] IN
    IF ~VAR_PAIR_PATTERN(kv)
    THEN Raise("ValidationError", "Invalid KEY:VALUE format", kv)
    ELSE LET key == KeyOf(kv)
             value == ValueOf(kv)
             key_u == normalize_key(key)
             next == IF \E j \in 1..Len(pairs) : pairs[j] = <<key_u, value>>
                     THEN pairs ELSE Append(pairs, <<key_u, value>>)
         IN IF DUT_KEY_PATTERN(key_u)
            THEN IF (~IsAlnum(value)) \/ Len(value) < MIN_SERIAL_LEN
                 THEN Raise("ValidationError", "Invalid DUT serial", key)
                 ELSE ParseVarsLoop_Dedup(raw_tokens, i + 1, next)
            ELSE IF key_u \notin ALLOWED_NON_DUT_KEYS
                 THEN Raise("ValidationError", "Unknown variable key", key)
                 ELSE ParseVarsLoop_Dedup(raw_tokens, i + 1, next)

RECURSIVE ParseVarsLoop(_, _, _)
ParseVarsLoop(raw_tokens, i, pairs) ==
  IF i > Len(raw_tokens) THEN Return(pairs)
  ELSE LET kv == raw_tokens[i] IN
    IF ~VAR_PAIR_PATTERN(kv)
    THEN Raise("ValidationError", "Invalid KEY:VALUE format", kv)
    ELSE LET key == KeyOf(kv)
             value == ValueOf(kv)
             key_u == normalize_key(key)
         IN IF DUT_KEY_PATTERN(key_u)
            THEN IF (~IsAlnum(value)) \/ Len(value) < MIN_SERIAL_LEN
                 THEN Raise("ValidationError", "Invalid DUT serial", key)
                 ELSE ParseVarsLoop(raw_tokens, i + 1, Append(pairs, <<key_u, value>>))
            ELSE IF key_u \notin ALLOWED_NON_DUT_KEYS
                 THEN Raise("ValidationError", "Unknown variable key", key)
                 ELSE ParseVarsLoop(raw_tokens, i + 1, Append(pairs, <<key_u, value>>))

parse_vars(raw_tokens, allow_empty) ==
  IF raw_tokens = <<>>
  THEN IF allow_empty THEN Return(<<>>)
       ELSE Raise("ValidationError", "No variables provided", <<>>)
  ELSE ParseVarsLoop(raw_tokens, 1, <<>>)

(* --------------------------- parse_sttl_block -------------------------- *)

\* STTL_BLOCK_PATTERN = ^id:\((.*)\)$ with re.IGNORECASE, applied to stripped
\* text: "." matches no newline, and the greedy group runs to the last ")"
STTL_BLOCK_PATTERN(raw) ==
  /\ Len(raw) >= 5
  /\ StrLower(SubSeq(raw, 1, 4)) = <<"i","d",":","(">>
  /\ raw[Len(raw)] = ")"
  /\ \A i \in 5..(Len(raw) - 1) : raw[i] # "\n"

\* m.group(1)
BlockBody(raw) == SubSeq(raw, 5, Len(raw) - 1)

STTL_SLASH_PREFIX == <<"S","T","T","L","/","S","T","T","L","-">>

STTL_PREFIX == <<"S","T","T","L","-">>

\* TOKEN_PATTERN = ^STTL/STTL-(\d+)$ (case-sensitive)
TOKEN_PATTERN(tok) ==
  /\ Len(tok) > Len(STTL_SLASH_PREFIX)
  /\ SubSeq(tok, 1, Len(STTL_SLASH_PREFIX)) = STTL_SLASH_PREFIX
  /\ AllDigits(SubSeq(tok, Len(STTL_SLASH_PREFIX) + 1, Len(tok)))

\* f"STTL-{tm.group(1)}"
CanonicalId(tok) == STTL_PREFIX \o SubSeq(tok, Len(STTL_SLASH_PREFIX) + 1, Len(tok))

InSeq(x, l) == \E i \in 1..Len(l) : l[i] = x

\* parse_sttl_block appending every id, repeated or not
RECURSIVE ParseSttlLoop_NoDedup(_, _, _)
ParseSttlLoop_NoDedup(tokens, i, ordered) ==
  IF i > Len(tokens)
  THEN IF ordered = <<>>
       THEN Raise("ParseError", "No valid STTL tokens parsed", <<>>)
       ELSE Return(ordered)
  ELSE IF ~TOKEN_PATTERN(tokens[i])
       THEN Raise("ParseError", "Malformed STTL token", tokens[i])
       ELSE ParseSttlLoop_NoDedup(tokens, i + 1, Append(ordered, CanonicalId(tokens[i])))

\* parse_sttl_block skipping a malformed token instead of raising
RECURSIVE ParseSttlLoop_SkipMalformed(_, _, _)
ParseSttlLoop_SkipMalformed(tokens, i, ordered) ==
  IF i > Len(tokens)
  THEN IF ordered = <<>>
       THEN Raise("ParseError", "No valid STTL tokens parsed", <<>>)
       ELSE Return(ordered)
  ELSE IF ~TOKEN_PATTERN(tokens[i])
       THEN ParseSttlLoop_SkipMalformed(tokens, i + 1, ordered)
       ELSE IF InSeq(CanonicalId(tokens[i]), ordered)
            THEN ParseSttlLoop_SkipMalformed(tokens, i + 1, ordered)
            ELSE ParseSttlLoop_SkipMalformed(tokens, i + 1,
                                             Append(ordered, CanonicalId(tokens[i])))

RECURSIVE ParseSttlLoop(_, _, _)
ParseSttlLoop(tokens, i, ordered) ==
  IF i > Len(tokens)
  THEN IF ordered = <<>>
       THEN Raise("ParseError", "No valid STTL tokens parsed", <<>>)
       ELSE Return(ordered)
  ELSE LET tok == tokens[i] IN
    IF ~TOKEN_PATTERN(tok)
    THEN Raise("ParseError", "Malformed STTL token", tok)
    ELSE LET sid == CanonicalId(tok) IN
      IF InSeq(sid, ordered)
      THEN ParseSttlLoop(tokens, i + 1, ordered)
      ELSE ParseSttlLoop(tokens, i + 1, Append(ordered, sid))

parse_sttl_block(raw0) ==
  LET raw == Strip(raw0) IN
  IF ~STTL_BLOCK_PATTERN(raw)
  THEN Raise("ParseError", "STTL block must match id:(STTL/STTL-<id> ...)", <<>>)
  ELSE LET body == Strip(BlockBody(raw)) IN
    IF body = <<>>
    THEN Raise("ParseError", "STTL block empty", <<>>)
    ELSE ParseSttlLoop(Split(body), 1, <<>>)

(* ------------------------------ parse_flags ---------------------------- *)

\* shlex.split(spec): the POSIX-mode tokenizer of shlex with whitespace_split
\* and no comment characters.  st is the lexer state: " " between tokens,
\* "a" inside a word, a quote character inside quotes, "\\" after an escape.
RECURSIVE ShlexRun(_, _, _, _, _, _)
ShlexRun(s, st, esc, tok, quoted, out) ==
  IF s = <<>>
  THEN IF st \in {"'", "\""} THEN Raise("ValueError", "No closing quotation", <<>>)
       ELSE IF st = "\\" THEN Raise("ValueError", "No escaped character", <<>>)
       ELSE Return(IF tok # <<>> \/ quoted THEN Append(out, tok) ELSE out)
  ELSE LET c == Head(s)
           r == Tail(s)
       IN
    IF st \in {" ", "a"}
    THEN IF c \in WhiteSpace
         THEN ShlexRun(r, " ", esc, <<>>, FALSE,
                       IF tok # <<>> \/ quoted THEN Append(out, tok) ELSE out)
         ELSE IF c = "\\" THEN ShlexRun(r, "\\", "a", tok, quoted, out)
         ELSE IF c \in {"'", "\""} THEN ShlexRun(r, c, esc, tok, quoted, out)
         ELSE ShlexRun(r, "a", esc, Append(tok, c), quoted, out)
    ELSE IF st \in {"'", "\""}
    THEN IF c = st THEN ShlexRun(r, "a", esc, tok, TRUE, out)
         ELSE IF c = "\\" /\ st = "\""
              THEN ShlexRun(r, "\\", st, tok, TRUE, out)
              ELSE ShlexRun(r, st, esc, Append(tok, c), TRUE, out)
    ELSE \* st = "\\": the character after an escape
         IF esc \in {"'", "\""} /\ c # "\\" /\ c # esc
         THEN ShlexRun(r, esc, esc, tok \o <<"\\", c>>, quoted, out)
         ELSE ShlexRun(r, esc, esc, Append(tok, c), quoted, out)

shlex_split(spec) == ShlexRun(spec, " ", " ", <<>>, FALSE, <<>>)

RESERVED_MARKERS == { <<"-","v">>, <<"-","t">> }

\* parse_flags dropping a reserved token instead of raising
RECURSIVE ParseFlagsTokens_DropReserved(_, _, _)
ParseFlagsTokens_DropReserved(split, j, tokens) ==
  IF j > Len(split) THEN Return(tokens)
  ELSE IF split[j] \in {<<"-","v">>, <<"-","t">>}
       THEN ParseFlagsTokens_DropReserved(split, j + 1, tokens)
       ELSE ParseFlagsTokens_DropReserved(split, j + 1, Append(tokens, split[j]))

\* parse_flags checking for -v only
RECURSIVE ParseFlagsTokens_OnlyV(_, _, _)
ParseFlagsTokens_OnlyV(split, j, tokens) ==
  IF j > Len(split) THEN Return(tokens)
  ELSE IF split[j] = <<"-","v">>
       THEN Raise("ValidationError", "Disallowed token in --flag specification", split[j])
       ELSE ParseFlagsTokens_OnlyV(split, j + 1, Append(tokens, split[j]))

RECURSIVE ParseFlagsTokens(_, _, _)
ParseFlagsTokens(split, j, tokens) ==
  IF j > Len(split) THEN Return(tokens)
  ELSE IF split[j] \in RESERVED_MARKERS
       THEN Raise("ValidationError", "Disallowed token in --flag specification", split[j])
       ELSE ParseFlagsTokens(split, j + 1, Append(tokens, split[j]))

RECURSIVE ParseFlagsLoop(_, _, _)
ParseFlagsLoop(flag_specs, i, tokens) ==
  IF i > Len(flag_specs) THEN Return(tokens)
  ELSE LET spec == flag_specs[i] IN
    IF Strip(spec) = <<>> THEN ParseFlagsLoop(flag_specs, i + 1, tokens)
    ELSE LET split == shlex_split(spec) IN
      IF ~split.ok THEN split
      ELSE LET t == ParseFlagsTokens(split.val, 1, tokens) IN
        IF ~t.ok THEN t ELSE ParseFlagsLoop(flag_specs, i + 1, t.val)

parse_flags(flag_specs) == ParseFlagsLoop(flag_specs, 1, <<>>)

(* ------------------------------ ZybotCommand --------------------------- *)

\* Optional[str]: None is the empty tuple, a string s is <<s>>
None == <<>>

Some(s) == <<s>>

\* truthiness of an Optional[str]: None and "" are false
Truthy(p) == p # None /\ p[1] # <<>>

\* "path or None"
OrNone(p) == IF Truthy(p) THEN p ELSE None

ZybotCommand(vars_list, sttls, path, flags) ==
  [vars |-> vars_list, sttls |-> sttls, path |-> path, flags |-> flags]

RECURSIVE VarArgs(_)
VarArgs(vs) ==
  IF vs = <<>> THEN <<>>
  ELSE << <<"-","v">>, vs[1][1] \o <<":">> \o vs[1][2] >> \o VarArgs(Tail(vs))

\* the references without the wildcard suffix
RECURSIVE SttlArgs_NoWildcard(_)
SttlArgs_NoWildcard(ids) ==
  IF ids = <<>> THEN <<>>
  ELSE << <<"-","t">>, ids[1] >> \o SttlArgs_NoWildcard(Tail(ids))

RECURSIVE SttlArgs(_)
SttlArgs(ids) ==
  IF ids = <<>> THEN <<>>
  ELSE << <<"-","t">>, ids[1] \o <<"*">> >> \o SttlArgs(Tail(ids))

build_args(cmd) ==
  << <<"z","y","b","o","t">> >>
    \o cmd.flags
    \o VarArgs(cmd.vars)
    \o SttlArgs(cmd.sttls)
    \o (IF Truthy(cmd.path) THEN <<cmd.path[1]>> ELSE <<>>)

\* the loop quoting the token after -v as well
RECURSIVE DisplayLoop_QuoteVars(_, _, _)
DisplayLoop_QuoteVars(raw, i, disp) ==
  IF i > Len(raw) THEN disp
  ELSE IF raw[i] \in {<<"-","t">>, <<"-","v">>} /\ i + 1 <= Len(raw)
       THEN DisplayLoop_QuoteVars(raw, i + 2,
                        disp \o << raw[i], <<"\"">> \o raw[i + 1] \o <<"\"">> >>)
       ELSE DisplayLoop_QuoteVars(raw, i + 1, Append(disp, raw[i]))

RECURSIVE DisplayLoop(_, _, _)
DisplayLoop(raw, i, disp) ==
  IF i > Len(raw) THEN disp
  ELSE IF raw[i] = <<"-","t">> /\ i + 1 <= Len(raw)
       THEN DisplayLoop(raw, i + 2,
                        disp \o << raw[i], <<"\"">> \o raw[i + 1] \o <<"\"">> >>)
       ELSE DisplayLoop(raw, i + 1, Append(disp, raw[i]))

display_command(cmd) == Join(DisplayLoop(build_args(cmd), 1, <<>>))

\* the object after one of its methods has run on it
\* with build_args filling the flags list itself: args = self.flags, then
\* args.insert(0, "zybot")
SelfAfter_SharedList(method, cmd) ==
  [cmd EXCEPT !.flags = << <<"z","y","b","o","t">> >> \o @]

\* build_args starts from a fresh list (line 141) and extend() copies into
\* it; display_command and pretty build fresh lists from build_args(); no
\* method assigns a field of self
SelfAfter(method, cmd) == cmd

(* ------------------------------ build_command -------------------------- *)

\* the definition in force at import time: the later def (lines 279-282)
\* rebinds the name, so the sttl_block variant of lines 271-275 is never called
build_command(vars_tokens, sttl_ids, path, allow_empty_vars, flags) ==
  LET vars_list == parse_vars(vars_tokens, allow_empty_vars) IN
  IF ~vars_list.ok THEN vars_list
  ELSE LET flag_tokens == parse_flags(flags) IN
    IF ~flag_tokens.ok THEN flag_tokens
    ELSE Return(ZybotCommand(vars_list.val, sttl_ids, OrNone(path), flag_tokens.val))

(* --------------------------------- execute ----------------------------- *)

ENV_ERROR == 5

\* execute without the finally block that restores the working directory
execute_NoRestore(command, cwd0, os) ==
  IF ~os.isdir
  THEN [ret |-> Return(5), cwd |-> cwd0, invoked |-> <<>>]
  ELSE IF os.getcwd # "ok"
  THEN [ret |-> Raise("OSError", "getcwd", <<>>), cwd |-> cwd0, invoked |-> <<>>]
  ELSE
    LET must_cd == cwd0 # EXECUTION_DIR
        cd_failed == must_cd /\ os.chdir # "ok"
        failed == cd_failed \/ os.tool.raises
    IN [ret |-> IF failed THEN Return(5) ELSE Return(os.tool.rc),
        cwd |-> IF must_cd /\ ~cd_failed THEN EXECUTION_DIR ELSE cwd0,
        invoked |-> IF failed THEN <<>> ELSE <<display_command(command)>>]

\* execute reporting a failed restoration as an environment error
execute_RestoreMasks(command, cwd0, os) ==
  IF ~os.isdir
  THEN [ret |-> Return(5), cwd |-> cwd0, invoked |-> <<>>]
  ELSE IF os.getcwd # "ok"
  THEN [ret |-> Raise("OSError", "getcwd", <<>>), cwd |-> cwd0, invoked |-> <<>>]
  ELSE
    LET must_cd == cwd0 # EXECUTION_DIR
        cd_failed == must_cd /\ os.chdir # "ok"
        failed == cd_failed \/ os.tool.raises
        cwd1 == IF must_cd /\ ~cd_failed THEN EXECUTION_DIR ELSE cwd0
        restored == os.restore = "ok" \/ (os.restore = "chdir" /\ cwd1 = cwd0)
    IN [ret |-> IF failed \/ ~restored THEN Return(5) ELSE Return(os.tool.rc),
        cwd |-> IF os.restore = "ok" THEN cwd0 ELSE cwd1,
        invoked |-> IF failed THEN <<>> ELSE <<display_command(command)>>]

\* execute without the test that EXECUTION_DIR exists
execute_NoDirCheck(command, cwd0, os) ==
  IF os.getcwd # "ok"
  THEN [ret |-> Raise("OSError", "getcwd", <<>>), cwd |-> cwd0, invoked |-> <<>>]
  ELSE
    LET must_cd == cwd0 # EXECUTION_DIR
        cd_failed == must_cd /\ os.chdir # "ok"
        failed == cd_failed \/ os.tool.raises
        cwd1 == IF must_cd /\ ~cd_failed THEN EXECUTION_DIR ELSE cwd0
    IN [ret |-> IF failed THEN Return(5) ELSE Return(os.tool.rc),
        cwd |-> IF os.restore = "ok" THEN cwd0 ELSE cwd1,
        invoked |-> IF failed THEN <<>> ELSE <<display_command(command)>>]

\* What the operating system does during one call of execute:
\*   isdir      os.path.isdir(EXECUTION_DIR)
\*   getcwd     "ok" or "OSError": os.getcwd() before the try block
\*   chdir      "ok" or "OSError": os.chdir(EXECUTION_DIR)
\*   tool       [raises, rc]: subprocess.call raises OSError, or returns the
\*              exit code rc of the shell child
\*   restore    "ok", "getcwd" or "chdir": which call of the finally block raises
\* The result is [ret, cwd, invoked]: the value returned or the exception
\* raised, the working directory afterwards, the strings handed to the shell.
execute(command, cwd0, os) ==
  IF ~os.isdir
  THEN [ret |-> Return(ENV_ERROR), cwd |-> cwd0, invoked |-> <<>>]
  ELSE IF os.getcwd # "ok"
  THEN [ret |-> Raise("OSError", "getcwd", <<>>), cwd |-> cwd0, invoked |-> <<>>]
  ELSE
    LET prev_cwd == cwd0
        must_cd == prev_cwd # EXECUTION_DIR
        cd_failed == must_cd /\ os.chdir # "ok"
        cwd1 == IF must_cd /\ ~cd_failed THEN EXECUTION_DIR ELSE prev_cwd
        cmd_str == display_command(command)
        invoked == IF cd_failed \/ os.tool.raises THEN <<>> ELSE <<cmd_str>>
        result == IF cd_failed \/ os.tool.raises
                  THEN Return(ENV_ERROR) ELSE Return(os.tool.rc)
        \* finally: restore, swallowing OSError
        cwd2 == IF os.restore = "getcwd" THEN cwd1
                ELSE IF cwd1 # prev_cwd
                     THEN (IF os.restore = "chdir" THEN cwd1 ELSE prev_cwd)
                     ELSE cwd1
    IN [ret |-> result, cwd |-> cwd2, invoked |-> invoked]

\* The shell started by subprocess.call(cmd_str, shell=True) splits the
\* command line into words: blanks separate words, single quotes keep
\* everything, double quotes keep everything but a backslash before a
\* backslash or a double quote, and a backslash outside quotes keeps the next
\* character.  q is the state of the scan: st is " " between words, "a"
\* inside a word, a quote character inside quotes, "\\" after a backslash (esc
\* is then the state to go back to); tok is the word so far, out the words.
ShellStart == [st |-> " ", esc |-> " ", tok |-> <<>>, quoted |-> FALSE, out |-> <<>>]

ShellStep(q, c) ==
  IF q.st \in {" ", "a"}
  THEN IF c \in WhiteSpace
       THEN [q EXCEPT !.st = " ", !.tok = <<>>, !.quoted = FALSE,
                      !.out = IF q.tok # <<>> \/ q.quoted THEN Append(@, q.tok) ELSE @]
       ELSE IF c = "\\" THEN [q EXCEPT !.st = "\\", !.esc = "a"]
       ELSE IF c \in {"'", "\""} THEN [q EXCEPT !.st = c]
       ELSE [q EXCEPT !.st = "a", !.tok = Append(@, c)]
  ELSE IF q.st \in {"'", "\""}
  THEN IF c = q.st THEN [q EXCEPT !.st = "a", !.quoted = TRUE]
       ELSE IF c = "\\" /\ q.st = "\""
            THEN [q EXCEPT !.st = "\\", !.esc = q.st, !.quoted = TRUE]
            ELSE [q EXCEPT !.tok = Append(@, c), !.quoted = TRUE]
  ELSE IF q.esc \in {"'", "\""} /\ c # "\\" /\ c # q.esc
       THEN [q EXCEPT !.st = q.esc, !.tok = @ \o <<"\\", c>>]
       ELSE [q EXCEPT !.st = q.esc, !.tok = Append(@, c)]

\* the scan of s[lo..hi] from state q0, by halves
RECURSIVE ShellRun(_, _, _, _)
ShellRun(q0, s, lo, hi) ==
  CHOOSE r \in { IF a > b THEN q
                 ELSE IF a = b THEN ShellStep(q, s[a])
                 ELSE ShellRun(ShellRun(q, s, a, (a + b) \div 2), s, (a + b) \div 2 + 1, b) :
                 q \in {q0}, a \in {lo}, b \in {hi} } : TRUE

ShellWords(cmd_str) ==
  LET q == ShellRun(ShellStart, cmd_str, 1, Len(cmd_str)) IN
  IF q.st \in {"'", "\""} THEN Raise("ValueError", "No closing quotation", <<>>)
  ELSE IF q.st = "\\" THEN Raise("ValueError", "No escaped character", <<>>)
  ELSE Return(IF q.tok # <<>> \/ q.quoted THEN Append(q.out, q.tok) ELSE q.out)

(* ----------------------------------- cli ------------------------------- *)

\* supports_color(): the module never imports sys, so unless NO_COLOR is set
\* the reference to sys.stdout raises NameError
supports_color(no_color_env) ==
  IF no_color_env THEN Return(FALSE)
  ELSE Raise("NameError", "name 'sys' is not defined", <<>>)

\* the line of pretty() that carries the rendered command
pretty(cmd) == <<" ", " ">> \o display_command(cmd)

\* what one call did: the value returned or exception raised, the command
\* renderings printed, the strings handed to the shell, the working directory
Outcome(r, shown, invoked, dir) ==
  [ret |-> r, shown |-> shown, ran |-> invoked, cwd |-> dir]

\* args.sttl_block / args.sttl_file: the text the block is read from
\*   kind "block": --sttl-block text; "file": --sttl-file, readable, holding
\*   text; "unreadable": --sttl-file whose open() raises OSError; "none"
SttlSource(sttl) ==
  IF sttl.kind = "block" /\ sttl.text # <<>> THEN Return(sttl.text)
  ELSE IF sttl.kind = "file" THEN Return(Strip(sttl.text))
  ELSE Raise("exit", "STTL source", <<>>)

\* cli(argv) for a non-empty argv that argparse accepts
cli(args, no_color_env, cwd0, os) ==
  LET sc == supports_color(no_color_env) IN
  IF ~sc.ok THEN Outcome(sc, <<>>, <<>>, cwd0)
  ELSE IF args.show_formats THEN Outcome(Return(0), <<>>, <<>>, cwd0)
  ELSE IF args.var = <<>> THEN Outcome(Return(3), <<>>, <<>>, cwd0)
  ELSE LET vs == parse_vars(args.var, FALSE) IN
  IF ~vs.ok THEN Outcome(Return(3), <<>>, <<>>, cwd0)
  ELSE LET flag_tokens == parse_flags(args.flag) IN
  IF ~flag_tokens.ok
  THEN IF flag_tokens.exc = "ValidationError"
       THEN Outcome(Return(3), <<>>, <<>>, cwd0)
       ELSE Outcome(flag_tokens, <<>>, <<>>, cwd0)
  ELSE LET sttl_source == SttlSource(args.sttl) IN
  IF ~sttl_source.ok THEN Outcome(Return(2), <<>>, <<>>, cwd0)
  ELSE LET sttls == parse_sttl_block(sttl_source.val) IN
  IF ~sttls.ok THEN Outcome(Return(2), <<>>, <<>>, cwd0)
  ELSE
    LET command == ZybotCommand(vs.val, sttls.val, args.path, flag_tokens.val)
        shown == IF args.pretty
                 THEN <<pretty(command), display_command(command)>>
                 ELSE <<display_command(command)>>
    IN IF args.execute
       THEN LET r == execute(command, cwd0, os) IN
            Outcome(r.ret, shown, r.invoked, r.cwd)
       ELSE Outcome(Return(0), shown, <<>>, cwd0)

\* main(): the value cli returns is dropped; sys.exit(exit_code) with
\* exit_code = 0, or status 1 when an exception other than
\* KeyboardInterrupt escapes
main_exit_status(cli_ret) == IF cli_ret.ok THEN 0 ELSE 1

(* --------------------------- interactive_menu -------------------------- *)

\* what one pass through the menu loop did.  next is "continue" (back to the
\* main menu), "return" (interactive_menu returned 0) or "raise" (an
\* exception escaped); last is the remembered command afterwards
MenuStep(next, r, last, shown, invoked, dir) ==
  [next |-> next, ret |-> r, last |-> last, shown |-> shown, ran |-> invoked, cwd |-> dir]

\* the "Re-run this command again?" loop: reruns holds, for each time the user
\* answers y, what the operating system does during that execute
RECURSIVE RerunLoop(_, _, _, _)
RerunLoop(command, reruns, dir, invoked) ==
  IF reruns = <<>> THEN [ret |-> Return(0), cwd |-> dir, ran |-> invoked]
  ELSE LET r == execute(command, dir, Head(reruns)) IN
    IF ~r.ret.ok THEN [ret |-> r.ret, cwd |-> r.cwd, ran |-> invoked \o r.invoked]
    ELSE IF r.ret.val # 0
         THEN [ret |-> Return(0), cwd |-> r.cwd, ran |-> invoked \o r.invoked]
         ELSE RerunLoop(command, Tail(reruns), r.cwd, invoked \o r.invoked)

\* choice '1': the generate flow, from the variables prompt to the end of
\* the loop body
menu_generate(inp, last, cwd0) ==
  LET vars_list == parse_vars(Split(Strip(inp.vars_input)), TRUE) IN
  IF ~vars_list.ok THEN MenuStep("continue", vars_list, last, <<>>, <<>>, cwd0)
  ELSE LET sttl_raw == Strip(inp.sttl_raw) IN
  IF sttl_raw = <<"?">>
  THEN MenuStep("continue", Return(<<>>), last, <<>>, <<>>, cwd0)
  ELSE LET sttls == parse_sttl_block(sttl_raw) IN
  IF ~sttls.ok THEN MenuStep("continue", sttls, last, <<>>, <<>>, cwd0)
  ELSE LET flag_raw == Strip(inp.flag_raw)
           flags == IF flag_raw # <<>> THEN parse_flags(<<flag_raw>>) ELSE Return(<<>>)
  IN
  IF ~flags.ok
  THEN MenuStep(IF flags.exc = "ValidationError" THEN "continue" ELSE "raise",
                flags, last, <<>>, <<>>, cwd0)
  ELSE
    LET command == ZybotCommand(vars_list.val, sttls.val,
                                OrNone(Some(Strip(inp.path_in))), flags.val)
        shown == <<pretty(command)>>
        after == IF inp.again THEN "continue" ELSE "return"
    IN
    IF inp.exec_ans
    THEN LET r == execute(command, cwd0, inp.os) IN
      IF ~r.ret.ok THEN MenuStep("raise", r.ret, last, shown, r.invoked, r.cwd)
      ELSE IF r.ret.val # 0
      THEN MenuStep(after, Return(0), last, shown, r.invoked, r.cwd)
      ELSE LET l == RerunLoop(command, inp.reruns, r.cwd, r.invoked) IN
        IF ~l.ret.ok THEN MenuStep("raise", l.ret, Some(command), shown, l.ran, l.cwd)
        ELSE MenuStep(after, Return(0), Some(command), shown, l.ran, l.cwd)
    ELSE MenuStep(after, Return(0), Some(command), shown, <<>>, cwd0)

\* choice '2': re-run the remembered command
menu_rerun(inp, last, cwd0) ==
  IF last = None THEN MenuStep("continue", Return(<<>>), last, <<>>, <<>>, cwd0)
  ELSE LET shown == <<pretty(last[1])>> IN
    IF inp.exec_ans
    THEN LET r == execute(last[1], cwd0, inp.os) IN
         MenuStep(IF r.ret.ok THEN "continue" ELSE "raise",
                  r.ret, last, shown, r.invoked, r.cwd)
    ELSE MenuStep("continue", Return(<<>>), last, shown, <<>>, cwd0)

(* ------------------------------- formatting ---------------------------- *)

\* hr(): the width of the rule that closes the summary of pretty()
HR_WIDTH == 60

(* --------------------------- parse_sttl_ids_any ------------------------ *)

\* length of the run of digits that starts at position i of s
RECURSIVE DigitRun(_, _)
DigitRun(s, i) ==
  IF i > Len(s) \/ s[i] \notin Digits THEN 0 ELSE 1 + DigitRun(s, i + 1)

StartsWithAt(s, i, p) ==
  i + Len(p) - 1 <= Len(s) /\ SubSeq(s, i, i + Len(p) - 1) = p

\* fewest digits \d{4,} takes
MIN_ID_DIGITS == 4

\* the pattern (?:STTL\/STTL-|STTL-)?(\d{4,}) tried at position i: the
\* alternatives of the optional prefix in order, then the greedy digits.
\* [at |-> first position after the match, group |-> the digits], at = 0 when
\* it does not match here
IdPatternAt(s, i) ==
  LET try(p) == LET n == DigitRun(s, i + Len(p)) IN
                IF StartsWithAt(s, i, p) /\ n >= MIN_ID_DIGITS
                THEN [at |-> i + Len(p) + n,
                      group |-> SubSeq(s, i + Len(p), i + Len(p) + n - 1)]
                ELSE [at |-> 0, group |-> <<>>]
  IN IF try(STTL_SLASH_PREFIX).at # 0 THEN try(STTL_SLASH_PREFIX)
     ELSE IF try(STTL_PREFIX).at # 0 THEN try(STTL_PREFIX)
     ELSE try(<<>>)

\* pattern.findall(raw): the groups of the non-overlapping matches, leftmost
\* first
RECURSIVE FindAllIds(_, _, _)
FindAllIds(s, i, ids) ==
  IF i > Len(s) THEN ids
  ELSE LET m == IdPatternAt(s, i) IN
    IF m.at # 0 THEN FindAllIds(s, m.at, Append(ids, m.group))
    ELSE FindAllIds(s, i + 1, ids)

\* the loop appending every id, a repeated one too
RECURSIVE UniqueIds_NoDedup(_, _, _)
UniqueIds_NoDedup(ids, i, unique) ==
  IF i > Len(ids) THEN unique
  ELSE UniqueIds_NoDedup(ids, i + 1, Append(unique, STTL_PREFIX \o ids[i]))

\* for idnum in ids: sid = f'STTL-{idnum}', kept when not seen before
RECURSIVE UniqueIds(_, _, _)
UniqueIds(ids, i, unique) ==
  IF i > Len(ids) THEN unique
  ELSE LET sid == STTL_PREFIX \o ids[i] IN
    IF InSeq(sid, unique) THEN UniqueIds(ids, i + 1, unique)
    ELSE UniqueIds(ids, i + 1, Append(unique, sid))

parse_sttl_ids_any(raw) == Return(UniqueIds(FindAllIds(raw, 1, <<>>), 1, <<>>))

(* ------------------------------ ZyButlerGUI ---------------------------- *)

\* str(n) for a natural number
RECURSIVE StrNat(_)
StrNat(n) ==
  LET d == <<"0","1","2","3","4","5","6","7","8","9">>[(n % 10) + 1] IN
  IF n < 10 THEN <<d>> ELSE Append(StrNat(n \div 10), d)

\* the texts of the flag checkboxes, in the order the dictionary holds them
common_flags ==
  << <<"-","L"," ","T","R","A","C","E">>, <<"-","-","d","r","y","r","u","n">>, <<"-","-","o","u","t","p","u","t","d","i","r"," ","R","e","s","u","l","t","s">>, <<"-","-","l","o","g","l","e","v","e","l"," ","D","E","B","U","G">> >>

\* tk.StringVar(value="TS/ANDROID/") of the path entry
TEST_PATH_DEFAULT == <<"T","S","/","A","N","D","R","O","I","D","/">>

\* the fields of the window after __init__ and build_gui
NewGui ==
  [dut_vars |-> <<>>, test_ids |-> <<>>, custom_flags |-> <<>>,
   flag_vars |-> [i \in 1..Len(common_flags) |-> FALSE],
   test_path |-> TEST_PATH_DEFAULT, command_var |-> <<>>]

\* [f"DUT{idx+1}:{serial}" for idx, serial in enumerate(self.dut_vars)]
DutTokens(dut_vars) ==
  [i \in 1..Len(dut_vars) |-> <<"D","U","T">> \o StrNat(i) \o <<":">> \o dut_vars[i]]

\* the checked common flags in dictionary order, then the custom flags
RECURSIVE CheckedFlags(_, _)
CheckedFlags(flag_vars, i) ==
  IF i > Len(common_flags) THEN <<>>
  ELSE (IF flag_vars[i] THEN <<common_flags[i]>> ELSE <<>>) \o CheckedFlags(flag_vars, i + 1)

GuiFlags(g) == CheckedFlags(g.flag_vars, 1) \o g.custom_flags

\* the ZybotCommand both update_command and run_zybot build from the fields
GuiBuild(g) ==
  build_command(DutTokens(g.dut_vars), g.test_ids, OrNone(Some(Strip(g.test_path))),
                TRUE, GuiFlags(g))

\* l.pop(idx), idx counted from 1
Pop(l, idx) == SubSeq(l, 1, idx - 1) \o SubSeq(l, idx + 1, Len(l))

\* what a handler did: the fields afterwards, the value it returned or the
\* exception it left to Tk's report_callback_exception, and the strings it
\* handed to the shell; cwd is set by the one handler that can change it
GuiStep(g, r, invoked) == [gui |-> g, ret |-> r, ran |-> invoked, cwd |-> <<>>]

\* update_command that returns without clearing the command field when there
\* are no test ids
update_command_NoClear(g) ==
  IF g.test_ids = <<>>
  THEN GuiStep(g, Return(<<>>), <<>>)
  ELSE LET cmd_obj == GuiBuild(g) IN
    IF ~cmd_obj.ok THEN GuiStep(g, cmd_obj, <<>>)
    ELSE GuiStep([g EXCEPT !.command_var = display_command(cmd_obj.val)],
                 Return(<<>>), <<>>)

\* update_command on the fields g: the command field is cleared without test
\* ids, set to the rendering of the built command, or left as it was when
\* build_command raises
update_command(g) ==
  IF g.test_ids = <<>>
  THEN GuiStep([g EXCEPT !.command_var = <<>>], Return(<<>>), <<>>)
  ELSE LET cmd_obj == GuiBuild(g) IN
    IF ~cmd_obj.ok THEN GuiStep(g, cmd_obj, <<>>)
    ELSE GuiStep([g EXCEPT !.command_var = display_command(cmd_obj.val)],
                 Return(<<>>), <<>>)

\* add_device: the serial is appended and the list redrawn; update_command is
\* not called
add_device(g, typed) ==
  LET serial == Strip(typed) IN
  IF serial # <<>> /\ ~InSeq(serial, g.dut_vars)
  THEN GuiStep([g EXCEPT !.dut_vars = Append(@, serial)], Return(<<>>), <<>>)
  ELSE GuiStep(g, Return(<<>>), <<>>)

remove_device(g, idx) == update_command([g EXCEPT !.dut_vars = Pop(@, idx)])

parse_sttl_input(g, typed) ==
  update_command([g EXCEPT !.test_ids = parse_sttl_ids_any(Strip(typed)).val])

remove_test_id(g, idx) == update_command([g EXCEPT !.test_ids = Pop(@, idx)])

add_custom_flag(g, typed) ==
  LET flag == Strip(typed) IN
  IF flag # <<>> /\ ~InSeq(flag, g.custom_flags)
  THEN update_command([g EXCEPT !.custom_flags = Append(@, flag)])
  ELSE GuiStep(g, Return(<<>>), <<>>)

remove_custom_flag(g, idx) == update_command([g EXCEPT !.custom_flags = Pop(@, idx)])

\* a click on the i-th flag checkbox: Tk flips the variable, then runs the
\* checkbox's command, update_command
toggle_flag(g, i) == update_command([g EXCEPT !.flag_vars[i] = ~@])

\* copy_command: the value returned stands for what is put on the clipboard
copy_command(g) ==
  IF g.command_var # <<>>
  THEN GuiStep(g, Return(g.command_var), <<>>)
  ELSE GuiStep(g, Return(<<>>), <<>>)

\* run_zybot: nothing without a shown command; otherwise the command is built
\* again from the fields and executed
run_zybot(g, cwd0, os) ==
  IF g.command_var = <<>> THEN [GuiStep(g, Return(<<>>), <<>>) EXCEPT !.cwd = cwd0]
  ELSE LET cmd_obj == GuiBuild(g) IN
    IF ~cmd_obj.ok THEN [GuiStep(g, cmd_obj, <<>>) EXCEPT !.cwd = cwd0]
    ELSE LET r == execute(cmd_obj.val, cwd0, os) IN
         [GuiStep(g, r.ret, r.invoked) EXCEPT !.cwd = r.cwd]

(* -------------------------------- main_gui ----------------------------- *)

\* validate_serial
validate_serial(serial) == IsAlnum(serial) /\ Len(serial) >= MIN_SERIAL_LEN

\* a str in a place that is iterated as a list of str: the items are its
\* characters, each a str of length one
StrItems(s) == [i \in 1..Len(s) |-> <<s[i]>>]

\* the DUT tokens of the filled-in device entries, numbered by entry position;
\* None when a filled-in entry fails validate_serial
RECURSIVE GuiDutTokens(_, _, _)
GuiDutTokens(dut_vals, idx, dut_tokens) ==
  IF idx > Len(dut_vals) THEN Some(dut_tokens)
  ELSE LET val == Strip(dut_vals[idx]) IN
    IF val = <<>> THEN GuiDutTokens(dut_vals, idx + 1, dut_tokens)
    ELSE IF ~validate_serial(val) THEN None
    ELSE GuiDutTokens(dut_vals, idx + 1,
                      Append(dut_tokens, <<"D","U","T">> \o StrNat(idx) \o <<":">> \o val))

\* build_command_from_gui: the ZybotCommand built from the entries of the
\* window, or None after an error box.  The stripped text of the block entry
\* goes to build_command as its second argument.
build_command_from_gui(dut_vals, sttl_block, test_path, flag_list) ==
  LET dut_tokens == GuiDutTokens(dut_vals, 1, <<>>)
      sttl_raw == Strip(sttl_block)
  IN
  IF dut_tokens = None THEN Return(None)
  ELSE IF ~parse_sttl_block(sttl_raw).ok THEN Return(None)
  ELSE LET cmd == build_command(dut_tokens[1], StrItems(sttl_raw),
                                OrNone(Some(Strip(test_path))), TRUE, flag_list)
       IN IF cmd.ok THEN Return(Some(cmd.val))
          ELSE IF cmd.exc \in {"ValidationError", "ParseError"} THEN Return(None)
          ELSE cmd

(* ------------------------------- bounds -------------------------------- *)

\* longest serial value tried (MIN_SERIAL_LEN lies inside the range)
MaxSerialLen == 11

\* longest sequence of variable tokens
MaxVars == 2

\* most tokens in the body of an STTL block
MaxTokens == 3

\* longest flag specification enumerated character by character
MaxSpecLen == 3

(* ---------------------------- input universes -------------------------- *)

SeqsUpTo(S, n) == UNION { [1..k -> S] : k \in 0..n }

KeyPool ==
  { <<"D","U","T","1">>, <<"d","u","t","2">>, <<"D","u","t","1","0">>, <<"D","U","T">>, <<"T","E","S","T","D","I","R">>, <<"t","e","s","t","d","i","r">>,
    <<"F","O","O">>, <<"D","U","T","1","X">>, <<"D","-","T">>, <<>> }

ValueTails == {"-", " ", "\n", ":", "z", "_"}

ValuePool ==
  { Rep("A", n) : n \in 0..MaxSerialLen }
    \cup { Rep("7", n - 1) \o <<c>> : n \in 1..MaxSerialLen, c \in ValueTails }
    \cup { <<c>> \o Rep("b", n - 1) : n \in 1..MaxSerialLen, c \in {" ", "-"} }

VarTokenPool ==
  { k \o <<":">> \o v : k \in KeyPool, v \in ValuePool } \cup { <<"D","U","T","1">>, <<"B","A","D">>, <<>> }

ShortVarPool ==
  { <<"D","U","T","1",":","A","B","C","1","2","3","4","5","6","7">>, <<"d","u","t","2",":","Z","X","9","Q","W","E","R","T","Y","U">>, <<"T","E","S","T","D","I","R",":","T","R","U","E">>,
    <<"D","U","T","1",":","s","h","o","r","t">>, <<"F","O","O",":","1">>, <<"B","A","D">> }

VarSeqs ==
  { <<t>> : t \in VarTokenPool } \cup SeqsUpTo(ShortVarPool, MaxVars)

SttlTokenPool ==
  { <<"S","T","T","L","/","S","T","T","L","-","1">>, <<"S","T","T","L","/","S","T","T","L","-","2">>, <<"S","T","T","L","/","S","T","T","L","-","0","1">>, <<"S","T","T","L","/","S","T","T","L","-","a">>, <<"s","t","t","l","/","S","T","T","L","-","2">> }

BlockOpen == { <<"i","d",":","(">>, <<" ","I","D",":","("," ">>, <<"i","d","(">>, <<>> }

BlockClose == { <<")">>, <<" ",")"," ","\n">>, <<>> }

BlockSeps == { " ", "\n" }

RECURSIVE JoinWith(_, _)
JoinWith(l, sep) ==
  IF l = <<>> THEN <<>>
  ELSE IF Len(l) = 1 THEN l[1]
  ELSE l[1] \o <<sep>> \o JoinWith(Tail(l), sep)

SttlBlockPool ==
  { o \o JoinWith(b, sep) \o c :
      o \in BlockOpen, c \in BlockClose, sep \in BlockSeps,
      b \in SeqsUpTo(SttlTokenPool, MaxTokens) }
    \cup { <<"i","d",":","(","S","T","T","L","-","1",")">>, <<"i","d",":","(","S","T","T","L","/","S","T","T","L","-",")">>, <<"i","d",":","(","S","T","T","L","/","S","T","T","L","-","1",")"," ","S","T","T","L","/","S","T","T","L","-","2",")">>,
           <<"i","d",":","(","S","T","T","L","/","S","T","T","L","-","1"," ","S","T","T","L","/","S","T","T","L","-","1","x",")">>, <<"i","d",":","(","S","T","T","L","/","S","T","T","L","-","1","2","\\","t","S","T","T","L","/","S","T","T","L","-","1",")">> }

FlagAlphabet == {"-", "v", "t", "L", " ", "'", "\"", "\\"}

FlagSpecPool == SeqsUpTo(FlagAlphabet, MaxSpecLen)

ShortFlagPool ==
  { <<"-","L"," ","T","R","A","C","E">>, <<"-","-","d","r","y","r","u","n">>, <<" ">>, <<"-","v">>, <<"\"","-","t","\"">>, <<"'","x">>,
    <<"-","-","o","u","t","p","u","t","d","i","r"," ","\"","M","y"," ","R","e","s","u","l","t","s","\"">> }

FlagSpecSeqs ==
  { <<f>> : f \in FlagSpecPool } \cup SeqsUpTo(ShortFlagPool, 2)

\* arguments of build_command and of the command-line / menu flows
BuildVarSeqs ==
  { <<>>, << <<"D","U","T","1",":","A","B","C","1","2","3","4","5","6","7">> >>, << <<"d","u","t","2",":","Z","X","9","Q","W","E","R","T","Y","U">>, <<"T","E","S","T","D","I","R",":","T","R","U","E">> >>,
    << <<"D","U","T","1",":","s","h","o","r","t">> >>, << <<"D","U","T","1",":","A","B","C","1","2","3","4","5","6","7">>, <<"F","O","O",":","1">> >> }

SttlIdPool == { <<"S","T","T","L","-","2","3","8","8","9","7">>, <<"S","T","T","L","-","1","2","7","3","9","4">> }

SttlIdSeqs == SeqsUpTo(SttlIdPool, 2)

PathPool == { None, Some(<<>>), Some(<<"T","e","s","t","s","\\","R","e","g","r","e","s","s","i","o","n">>),
              Some(<<"M","y"," ","T","e","s","t","s">>) }

BuildFlagSeqs ==
  { <<>>, << <<"-","L"," ","T","R","A","C","E">> >>, << <<" ">>, <<"-","-","d","r","y","r","u","n">> >>, << <<"-","t">> >>, << <<"'","x">> >>,
    << <<"-","-","n","a","m","e"," ","\"","M","y"," ","R","u","n","\"">> >> }

\* the commands handed to execute: what build_command returns
CommandPool ==
  { build_command(v, ids, pth, TRUE, f).val :
      v \in { <<>>, << <<"D","U","T","1",":","A","B","C","1","2","3","4","5","6","7">> >> },
      ids \in SttlIdSeqs,
      pth \in { None, Some(<<"T","e","s","t","s","\\","R","e","g","r","e","s","s","i","o","n">>) },
      f \in { <<>>, << <<"-","L"," ","T","R","A","C","E">> >> } }

\* Commands built from validated inputs, for the renderings
RenderVarPool ==
  { <<<<"D","U","T","1">>, <<"A","B","C","1","2","3","4","5","6","7">>>>, <<<<"D","U","T","2">>, <<"Z","X","9","Q","W","E","R","T","Y","U">>>>, <<<<"T","E","S","T","D","I","R">>, <<"T","R","U","E">>>> }

RenderPathPool == { None, Some(<<>>), Some(<<"T","e","s","t","s","\\","R","e","g","r","e","s","s","i","o","n">>), Some(<<"-","t">>) }

RenderFlagPool == { <<>>, <<<<"-","L">>, <<"T","R","A","C","E">>>>, <<<<"M","y"," ","R","e","s","u","l","t","s">>>> }

RenderPool ==
  { ZybotCommand(v, ids, pth, f) :
      v \in SeqsUpTo(RenderVarPool, MaxVars), ids \in SttlIdSeqs,
      pth \in RenderPathPool, f \in RenderFlagPool }

HOME_DIR == "C:\\Users\\tester"

CwdPool == { HOME_DIR, EXECUTION_DIR }

ToolCodes == { 0, 1, 5 }

\* the fields that a run of execute never reads are held at one value
OsPool ==
  { os \in [ isdir : BOOLEAN, getcwd : {"ok", "OSError"}, chdir : {"ok", "OSError"},
             tool : [raises : BOOLEAN, rc : ToolCodes],
             restore : {"ok", "getcwd", "chdir"} ] :
      /\ (~os.isdir) => os.getcwd = "ok"
      /\ (~os.isdir \/ os.getcwd # "ok") =>
            (os.chdir = "ok" /\ ~os.tool.raises /\ os.tool.rc = 0 /\ os.restore = "ok")
      /\ os.chdir # "ok" => (~os.tool.raises /\ os.tool.rc = 0)
      /\ os.tool.raises => os.tool.rc = 0 }

\* the operating system behaving: directory present, every call succeeds,
\* the tool exits 0
OsQuiet ==
  [isdir |-> TRUE, getcwd |-> "ok", chdir |-> "ok",
   tool |-> [raises |-> FALSE, rc |-> 0], restore |-> "ok"]

\* most times the user answers y to "Re-run this command again?"
MaxRerun == 2

\* parsed command lines (argparse namespaces) of a one-shot run
CliVarPool ==
  { <<>>, << <<"D","U","T","1",":","A","B","C","1","2","3","4","5","6","7">> >>, << <<"d","u","t","2",":","Z","X","9","Q","W","E","R","T","Y","U">>, <<"T","E","S","T","D","I","R",":","T","R","U","E">> >>,
    << <<"D","U","T","1",":","s","h","o","r","t">> >>, << <<"D","U","T","1",":","A","B","C","1","2","3","4","5","6","7">>, <<"F","O","O",":","1">> >> }

CliFlagPool ==
  { <<>>, << <<"-","L"," ","T","R","A","C","E">> >>, << <<" ">>, <<"-","-","d","r","y","r","u","n">> >>, << <<"-","L"," ","T","R","A","C","E">>, <<"-","v">> >>, << <<"'","x">> >> }

CliSttlPool ==
  { [kind |-> "none", text |-> <<>>], [kind |-> "unreadable", text |-> <<>>] }
    \cup [ kind : {"block", "file"},
           text : { <<"i","d",":","(","S","T","T","L","/","S","T","T","L","-","2","3","8","8","9","7"," ","S","T","T","L","/","S","T","T","L","-","2","3","8","8","9","7"," ","S","T","T","L","/","S","T","T","L","-","1","2","7","3","9","4",")","\n">>,
                    <<"i","d",":","(","S","T","T","L","/","S","T","T","L","-","2","3","8","8","9","7"," ","S","T","T","L","/","S","T","T","L","-","a","b","c",")">>,
                    <<"S","T","T","L","/","S","T","T","L","-","2","3","8","8","9","7">>, <<>> } ]

CliArgs ==
  { a \in [ var : CliVarPool, flag : CliFlagPool, sttl : CliSttlPool,
            path : PathPool, execute : BOOLEAN, pretty : BOOLEAN,
            show_formats : BOOLEAN ] :
      \* an empty argv enters interactive_menu instead
      /\ ~(/\ a.var = <<>> /\ a.flag = <<>> /\ a.sttl.kind = "none"
           /\ a.path = None /\ ~a.execute /\ ~a.pretty /\ ~a.show_formats)
      /\ a.show_formats => (a.flag = <<>> /\ a.path = None /\ ~a.pretty)
      /\ a.path = Some(<<>>) => (a.flag = <<>> /\ ~a.pretty) }

\* the lines typed at the prompts of the generate flow
MenuVarsPool == { <<>>, <<" ","D","U","T","1",":","A","B","C","1","2","3","4","5","6","7"," ","t","e","s","t","d","i","r",":","T","R","U","E"," ">>, <<"D","U","T","1",":","s","h","o","r","t">> }

MenuSttlPool ==
  { <<"i","d",":","(","S","T","T","L","/","S","T","T","L","-","2","3","8","8","9","7"," ","S","T","T","L","/","S","T","T","L","-","2","3","8","8","9","7"," ","S","T","T","L","/","S","T","T","L","-","1","2","7","3","9","4",")">>,
    <<"i","d",":","(","S","T","T","L","/","S","T","T","L","-","7"," ","S","T","T","L","-","8",")">>, <<"?">>, <<>> }

MenuPathPool == { <<>>, <<" ","T","e","s","t","s","\\","R","e","g","r","e","s","s","i","o","n"," ">> }

MenuFlagPool == { <<>>, <<"-","L"," ","T","R","A","C","E">>, <<"-","-","d","r","y","r","u","n"," ","-","t">>, <<"'","x">> }

\* what the operating system does during an execute of the menu
MenuOsPool ==
  { OsQuiet,
    [OsQuiet EXCEPT !.tool = [raises |-> FALSE, rc |-> 1]],
    [OsQuiet EXCEPT !.tool = [raises |-> TRUE, rc |-> 0]],
    [OsQuiet EXCEPT !.restore = "chdir"],
    [OsQuiet EXCEPT !.isdir = FALSE],
    [OsQuiet EXCEPT !.getcwd = "OSError"] }

RerunOsPool ==
  { OsQuiet,
    [OsQuiet EXCEPT !.tool = [raises |-> FALSE, rc |-> 1]],
    [OsQuiet EXCEPT !.restore = "chdir"] }

\* free text handed to parse_sttl_ids_any: pieces set side by side or apart
LoosePiecePool ==
  { <<"1","2","3","4">>, <<"1","2","3">>, <<"S","T","T","L","/","S","T","T","L","-","1","2","3","4">>, <<"S","T","T","L","-","9","8","7","6","5">>, <<"S","T","T","L","/","S","T","T","L","-","1","2">>, <<"f","o","o">>, <<"0">> }

LooseJoiners == { <<>>, <<" ">>, <<"\n">> }

RECURSIVE JoinSeq(_, _)
JoinSeq(l, sep) ==
  IF l = <<>> THEN <<>>
  ELSE IF Len(l) = 1 THEN l[1]
  ELSE l[1] \o sep \o JoinSeq(Tail(l), sep)

LooseTextPool ==
  { JoinSeq(b, sep) : sep \in LooseJoiners, b \in SeqsUpTo(LoosePiecePool, MaxTokens) }
    \cup { <<"f","o","o"," ","1","2","3","4","5","6"," ","b","a","r"," ","S","T","T","L","/","S","T","T","L","-","9","8","7","6","5","4"," ","1","2","3","4","5","6">> }

\* most display_command calls made on one object
MaxRenderings == 2

\* the objects whose methods are called in sequence
ObjectPool ==
  { c \in RenderPool :
      /\ c.vars \in {<<>>, << <<<<"D","U","T","1">>, <<"A","B","C","1","2","3","4","5","6","7">>>> >>}
      /\ c.sttls \in { << <<"S","T","T","L","-","2","3","8","8","9","7">> >>,
                       << <<"S","T","T","L","-","2","3","8","8","9","7">>,
                          <<"S","T","T","L","-","1","2","7","3","9","4">> >> }
      /\ c.path \in {None, Some(<<"T","e","s","t","s","\\","R","e","g","r","e","s","s","i","o","n">>)}
      /\ c.flags \in {<<>>, <<<<"-","L">>, <<"T","R","A","C","E">>>>} }

\* what the operating system does during an execute of such an object
ObjectOsPool ==
  { OsQuiet,
    [OsQuiet EXCEPT !.tool = [raises |-> FALSE, rc |-> 1]],
    [OsQuiet EXCEPT !.restore = "chdir"],
    [OsQuiet EXCEPT !.isdir = FALSE] }

\* what the user types into the device box before pressing "+": a valid
\* serial, a serial parse_vars rejects, and nothing
GuiSerialPool == { <<"A","B","C","1","2","3","4","5","6","7">>, <<" ","b","a","d","!"," ">>, <<>> }

\* what the user pastes into the test-case box before pressing "Parse"
GuiPastePool == { <<>>, <<"r","u","n"," ","1","2","3","4",","," ","S","T","T","L","/","S","T","T","L","-","5","6","7","8"," ","a","n","d"," ","1","2","3","4">> }

\* what the user types into the custom-flag box before pressing "+"
GuiFlagPool == { <<" ","-","i"," ","s","m","o","k","e">>, <<>> }

\* the checkbox the user clicks: "--dryrun"
GuiCheckPool == { i \in 1..Len(common_flags) : common_flags[i] = <<"-","-","d","r","y","r","u","n">> }

\* what the operating system does during 'Run zybot'
GuiOsPool ==
  { OsQuiet,
    [OsQuiet EXCEPT !.tool = [raises |-> FALSE, rc |-> 1]],
    [OsQuiet EXCEPT !.isdir = FALSE] }

\* the texts of the device entries of the main_gui window
MainGuiDutPool ==
  { <<>>, << <<"A","B","C","1","2","3","4","5","6","7">> >>, << <<>>, <<" ","Z","X","9","Q","W","E","R","T","Y","U"," ">> >>, << <<"s","h","o","r","t">> >> }

\* the text of its block entry
MainGuiSttlPool ==
  { <<"i","d",":","(","S","T","T","L","/","S","T","T","L","-","2","3","8","8","9","7",")">>, <<" ","i","d",":","(","S","T","T","L","/","S","T","T","L","-","2","3","8","8","9","7"," ","S","T","T","L","/","S","T","T","L","-","1","2","7","3","9","4"," ","S","T","T","L","/","S","T","T","L","-","2","3","8","8","9","7",")"," ">>,
    <<"i","d",":","(","S","T","T","L","/","S","T","T","L","-","7"," ","S","T","T","L","-","8",")">>, <<"S","T","T","L","/","S","T","T","L","-","2","3","8","8","9","7">>, <<>> }

\* the flags added with "Add Flag", each accepted by validate_flag
MainGuiFlagPool == { <<>>, << <<"-","L"," ","T","R","A","C","E">> >> }

(* ------------------------------- the state ----------------------------- *)

VARIABLES
  cwd,          \* the working directory of the process
  pc,           \* "idle": between calls; "returned": a call has returned or
                \* raised; "menu": interactive_menu waits at "Enter choice";
                \* "continue": a pass of the menu loop has ended;
                \* "object": a caller holds a ZybotCommand object;
                \* "exited": the process has ended
  last_command, \* interactive_menu's remembered command, None or Some(command)
  call,         \* the operation last performed, with its arguments
  ret,          \* what it returned or raised
  shown,        \* the command renderings it printed
  ran,          \* the command strings it handed to the shell
  exit_status,  \* None while the process runs, Some(status) once it has ended
  object,       \* the ZybotCommand object a caller holds, None or Some(object)
  history,      \* of that object: the fields it was constructed with and the
                \* strings its display_command calls have returned so far
  gui           \* the fields of the ZyButlerGUI window, None or Some(fields)

vars == <<cwd, pc, last_command, call, ret, shown, ran, exit_status, object, history, gui>>

NoHistory == [made |-> None, rendered |-> <<>>, calls |-> {}]

Init ==
  /\ cwd \in CwdPool
  /\ pc = "idle"
  /\ last_command = None
  /\ call = [op |-> "import"]
  /\ ret = Return(<<>>)
  /\ shown = <<>>
  /\ ran = <<>>
  /\ exit_status = None
  /\ object = None
  /\ history = NoHistory
  /\ gui = None

\* a call of a function without side effects
Pure(c, r) ==
  /\ pc' = "returned"
  /\ call' = c
  /\ ret' = r
  /\ shown' = <<>>
  /\ ran' = <<>>
  /\ UNCHANGED <<cwd, last_command, exit_status, object, history, gui>>

\* the caller has taken the result and is ready for its next call
NextCall ==
  /\ pc = "returned"
  /\ pc' = "idle"
  /\ call' = [op |-> "import"]
  /\ ret' = Return(<<>>)
  /\ shown' = <<>>
  /\ ran' = <<>>
  /\ UNCHANGED <<cwd, last_command, exit_status, object, history, gui>>

ParseVarsCall ==
  /\ pc = "idle"
  /\ \E raw_tokens \in VarSeqs, allow_empty \in BOOLEAN :
    Pure([op |-> "parse_vars", raw_tokens |-> raw_tokens, allow_empty |-> allow_empty],
         parse_vars(raw_tokens, allow_empty))

ParseSttlBlockCall ==
  /\ pc = "idle"
  /\ \E raw \in SttlBlockPool :
    Pure([op |-> "parse_sttl_block", raw |-> raw], parse_sttl_block(raw))

ParseFlagsCall ==
  /\ pc = "idle"
  /\ \E flag_specs \in FlagSpecSeqs :
    Pure([op |-> "parse_flags", flag_specs |-> flag_specs], parse_flags(flag_specs))

BuildCommandCall ==
  /\ pc = "idle"
  /\ \E vars_tokens \in BuildVarSeqs, sttl_ids \in SttlIdSeqs, path \in PathPool,
     allow_empty_vars \in BOOLEAN, flags \in BuildFlagSeqs :
    Pure([op |-> "build_command", vars_tokens |-> vars_tokens, sttl_ids |-> sttl_ids,
          path |-> path, allow_empty_vars |-> allow_empty_vars, flags |-> flags],
         build_command(vars_tokens, sttl_ids, path, allow_empty_vars, flags))

ParseSttlIdsAnyCall ==
  /\ pc = "idle"
  /\ \E raw \in LooseTextPool :
    Pure([op |-> "parse_sttl_ids_any", raw |-> raw], parse_sttl_ids_any(raw))

BuildArgsCall ==
  /\ pc = "idle"
  /\ \E command \in RenderPool :
    Pure([op |-> "build_args", command |-> command], Return(build_args(command)))

DisplayCommandCall ==
  /\ pc = "idle"
  /\ \E command \in RenderPool :
    Pure([op |-> "display_command", command |-> command],
         Return(display_command(command)))

ExecuteCall ==
  /\ pc = "idle"
  /\ \E command \in CommandPool, os \in OsPool :
    LET r == execute(command, cwd, os) IN
    /\ call' = [op |-> "execute", command |-> command, os |-> os, cwd |-> cwd]
    /\ ret' = r.ret
    /\ ran' = r.invoked
    /\ cwd' = r.cwd
    /\ pc' = "returned"
    /\ shown' = <<>>
    /\ UNCHANGED <<last_command, exit_status, object, history, gui>>

\* command = ZybotCommand(vars=..., sttls=..., path=..., flags=...)
ObjConstruct ==
  /\ pc = "idle"
  /\ \E c \in ObjectPool :
       /\ object' = Some(c)
       /\ history' = [made |-> Some(c), rendered |-> <<>>, calls |-> {}]
       /\ call' = [op |-> "ZybotCommand", command |-> c]
  /\ ret' = Return(<<>>)
  /\ pc' = "object"
  /\ shown' = <<>>
  /\ ran' = <<>>
  /\ UNCHANGED <<cwd, last_command, exit_status, gui>>

\* a method of the object returned r, having handed the strings invoked to
\* the shell and left the process in dir
ObjMethod(method, r, invoked, dir) ==
  /\ call' = [op |-> "method", name |-> method, self |-> object[1]]
  /\ ret' = r
  /\ object' = Some(SelfAfter(method, object[1]))
  /\ ran' = invoked
  /\ cwd' = dir
  /\ pc' = "object"
  /\ shown' = <<>>
  /\ UNCHANGED <<last_command, exit_status, gui>>

ObjBuildArgs ==
  /\ pc = "object"
  /\ ObjMethod("build_args", Return(build_args(object[1])), <<>>, cwd)
  /\ history' = [history EXCEPT !.calls = @ \cup {"build_args"}]

ObjDisplayCommand ==
  /\ pc = "object"
  /\ Len(history.rendered) < MaxRenderings
  /\ ObjMethod("display_command", Return(display_command(object[1])), <<>>, cwd)
  /\ history' = [history EXCEPT !.calls = @ \cup {"display_command"},
                                !.rendered = Append(@, display_command(object[1]))]

ObjPretty ==
  /\ pc = "object"
  /\ ObjMethod("pretty", Return(pretty(object[1])), <<>>, cwd)
  /\ history' = [history EXCEPT !.calls = @ \cup {"pretty"}]

ObjExecute ==
  /\ pc = "object"
  /\ \E os \in ObjectOsPool :
       LET r == execute(object[1], cwd, os) IN
       ObjMethod("execute", r.ret, r.invoked, r.cwd)
  /\ history' = [history EXCEPT !.calls = @ \cup {"execute"}]

\* the caller drops the object
ObjRelease ==
  /\ pc = "object"
  /\ pc' = "idle"
  /\ object' = None
  /\ history' = NoHistory
  /\ call' = [op |-> "import"]
  /\ ret' = Return(<<>>)
  /\ shown' = <<>>
  /\ ran' = <<>>
  /\ UNCHANGED <<cwd, last_command, exit_status, gui>>

\* python ZyButler.py <arguments>: main() runs cli(argv) and exits
MainOneShot ==
  /\ pc = "idle"
  /\ \E args \in CliArgs :
     \E no_color_env \in IF args.flag = <<>> /\ args.path = None
                          THEN BOOLEAN ELSE {TRUE} :
     \E os \in IF args.execute /\ cli(args, no_color_env, cwd, OsQuiet).shown # <<>>
               THEN OsPool ELSE {OsQuiet} :
       LET r == cli(args, no_color_env, cwd, os) IN
       /\ call' = [op |-> "main", args |-> args, no_color_env |-> no_color_env,
                   os |-> os, cwd |-> cwd]
       /\ ret' = r.ret
       /\ shown' = r.shown
       /\ ran' = r.ran
       /\ cwd' = r.cwd
       /\ pc' = "exited"
       /\ exit_status' = Some(main_exit_status(r.ret))
       /\ UNCHANGED <<last_command, object, history, gui>>

\* python ZyButler.py with no argument: cli([]) enters interactive_menu
MenuStart ==
  /\ pc = "idle"
  /\ \E no_color_env \in BOOLEAN :
       LET sc == supports_color(no_color_env) IN
       /\ call' = [op |-> "interactive_menu", no_color_env |-> no_color_env]
       /\ ret' = sc
       /\ pc' = IF sc.ok THEN "menu" ELSE "exited"
       /\ exit_status' = IF sc.ok THEN None ELSE Some(main_exit_status(sc))
       /\ last_command' = None
       /\ shown' = <<>>
       /\ ran' = <<>>
       /\ UNCHANGED <<cwd, object, history, gui>>

\* one pass of the menu loop that ended as step says
MenuPass(c, step) ==
  /\ call' = c
  /\ ret' = step.ret
  /\ shown' = step.shown
  /\ ran' = step.ran
  /\ cwd' = step.cwd
  /\ last_command' = IF step.next = "continue" THEN step.last ELSE None
  /\ pc' = IF step.next = "continue" THEN "continue" ELSE "exited"
  /\ exit_status' = IF step.next = "continue" THEN None
                    ELSE Some(main_exit_status(step.ret))
  /\ UNCHANGED <<object, history, gui>>

\* choice '?' (format help) or an unknown choice: nothing but output
MenuOther ==
  /\ pc = "menu"
  /\ \E choice \in {"?", "x"} :
       MenuPass([op |-> "menu", choice |-> choice, last_command |-> last_command,
                 cwd |-> cwd],
                MenuStep("continue", Return(<<>>), last_command, <<>>, <<>>, cwd))

\* choice '0'
MenuQuit ==
  /\ pc = "menu"
  /\ MenuPass([op |-> "menu", choice |-> "0", last_command |-> last_command,
               cwd |-> cwd],
              MenuStep("return", Return(0), last_command, <<>>, <<>>, cwd))

\* choice '2'
MenuRerun ==
  /\ pc = "menu"
  /\ \E exec_ans \in BOOLEAN :
     \E os \in IF exec_ans /\ last_command # None THEN MenuOsPool ELSE {OsQuiet} :
       LET inp == [exec_ans |-> exec_ans, os |-> os] IN
       MenuPass([op |-> "menu", choice |-> "2", inp |-> inp,
                 last_command |-> last_command, cwd |-> cwd],
                menu_rerun(inp, last_command, cwd))

\* choice '1'
MenuGenerate ==
  /\ pc = "menu"
  /\ \E vars_input \in MenuVarsPool, sttl_raw \in MenuSttlPool,
        path_in \in MenuPathPool, flag_raw \in MenuFlagPool :
     LET dry == [vars_input |-> vars_input, sttl_raw |-> sttl_raw, path_in |-> path_in,
                 flag_raw |-> flag_raw, exec_ans |-> FALSE, again |-> TRUE,
                 os |-> OsQuiet, reruns |-> <<>>]
         \* the prompts after the flags prompt are reached only with a command
         builds == menu_generate(dry, last_command, cwd).shown # <<>>
     IN
     \E exec_ans \in IF builds THEN BOOLEAN ELSE {FALSE} :
     \E again \in IF builds THEN BOOLEAN ELSE {TRUE} :
     \E os \in IF exec_ans THEN MenuOsPool ELSE {OsQuiet} :
     \E reruns \in IF exec_ans /\ os.isdir /\ os.getcwd = "ok"
                      /\ ~os.tool.raises /\ os.tool.rc = 0
                   THEN SeqsUpTo(RerunOsPool, MaxRerun) ELSE {<<>>} :
       LET inp == [dry EXCEPT !.exec_ans = exec_ans, !.again = again,
                              !.os = os, !.reruns = reruns] IN
       MenuPass([op |-> "menu", choice |-> "1", inp |-> inp,
                 last_command |-> last_command, cwd |-> cwd],
                menu_generate(inp, last_command, cwd))

\* "continue": the loop prints the main menu again
MenuPrompt ==
  /\ pc = "continue"
  /\ pc' = "menu"
  /\ call' = [op |-> "import"]
  /\ ret' = Return(<<>>)
  /\ shown' = <<>>
  /\ ran' = <<>>
  /\ UNCHANGED <<cwd, last_command, exit_status, object, history, gui>>

\* main() of zybutler_gui: the window is constructed
GuiStart ==
  /\ pc = "idle"
  /\ pc' = "gui"
  /\ gui' = Some(NewGui)
  /\ call' = [op |-> "gui", handler |-> "__init__"]
  /\ ret' = Return(<<>>)
  /\ shown' = <<>>
  /\ ran' = <<>>
  /\ UNCHANGED <<cwd, last_command, exit_status, object, history>>

\* a handler ran as step says; an exception it raised is reported by Tk and
\* the window stays open
GuiHandler(handler, step) ==
  /\ call' = [op |-> "gui", handler |-> handler]
  /\ gui' = Some(step.gui)
  /\ ret' = step.ret
  /\ ran' = step.ran
  /\ shown' = <<>>
  /\ pc' = "gui"
  /\ UNCHANGED <<last_command, exit_status, object, history>>

GuiAddDevice ==
  /\ pc = "gui"
  /\ \E typed \in GuiSerialPool : GuiHandler("add_device", add_device(gui[1], typed))
  /\ UNCHANGED cwd

GuiRemoveDevice ==
  /\ pc = "gui"
  /\ \E idx \in 1..Len(gui[1].dut_vars) :
       GuiHandler("remove_device", remove_device(gui[1], idx))
  /\ UNCHANGED cwd

GuiParseSttlInput ==
  /\ pc = "gui"
  /\ \E typed \in GuiPastePool :
       GuiHandler("parse_sttl_input", parse_sttl_input(gui[1], typed))
  /\ UNCHANGED cwd

GuiRemoveTestId ==
  /\ pc = "gui"
  /\ \E idx \in 1..Len(gui[1].test_ids) :
       GuiHandler("remove_test_id", remove_test_id(gui[1], idx))
  /\ UNCHANGED cwd

GuiAddCustomFlag ==
  /\ pc = "gui"
  /\ \E typed \in GuiFlagPool :
       GuiHandler("add_custom_flag", add_custom_flag(gui[1], typed))
  /\ UNCHANGED cwd

GuiRemoveCustomFlag ==
  /\ pc = "gui"
  /\ \E idx \in 1..Len(gui[1].custom_flags) :
       GuiHandler("remove_custom_flag", remove_custom_flag(gui[1], idx))
  /\ UNCHANGED cwd

GuiToggleFlag ==
  /\ pc = "gui"
  /\ \E i \in GuiCheckPool : GuiHandler("toggle_flag", toggle_flag(gui[1], i))
  /\ UNCHANGED cwd

GuiCopyCommand ==
  /\ pc = "gui"
  /\ GuiHandler("copy_command", copy_command(gui[1]))
  /\ UNCHANGED cwd

GuiRunZybot ==
  /\ pc = "gui"
  /\ \E os \in GuiOsPool :
       LET step == run_zybot(gui[1], cwd, os) IN
       /\ GuiHandler("run_zybot", step)
       /\ cwd' = step.cwd

\* the window is closed and mainloop returns
GuiClose ==
  /\ pc = "gui"
  /\ pc' = "idle"
  /\ gui' = None
  /\ call' = [op |-> "import"]
  /\ ret' = Return(<<>>)
  /\ shown' = <<>>
  /\ ran' = <<>>
  /\ UNCHANGED <<cwd, last_command, exit_status, object, history>>

\* main_gui: "Show Command Summary" and "Run zybot" both start by calling
\* build_command_from_gui on the entries
BuildCommandFromGuiCall ==
  /\ pc = "idle"
  /\ \E dut_vals \in MainGuiDutPool, sttl_block \in MainGuiSttlPool,
        test_path \in MenuPathPool, flag_list \in MainGuiFlagPool :
       Pure([op |-> "build_command_from_gui", dut_vals |-> dut_vals,
             sttl_block |-> sttl_block, test_path |-> test_path, flag_list |-> flag_list],
            build_command_from_gui(dut_vals, sttl_block, test_path, flag_list))

Next ==
  \/ ParseVarsCall
  \/ ParseSttlBlockCall
  \/ ParseFlagsCall
  \/ BuildCommandCall
  \/ ParseSttlIdsAnyCall
  \/ BuildArgsCall
  \/ DisplayCommandCall
  \/ ExecuteCall
  \/ NextCall
  \/ MainOneShot
  \/ MenuStart
  \/ MenuOther
  \/ MenuQuit
  \/ MenuRerun
  \/ MenuGenerate
  \/ MenuPrompt
  \/ ObjConstruct
  \/ ObjBuildArgs
  \/ ObjDisplayCommand
  \/ ObjPretty
  \/ ObjExecute
  \/ ObjRelease
  \/ GuiStart
  \/ GuiAddDevice
  \/ GuiRemoveDevice
  \/ GuiParseSttlInput
  \/ GuiRemoveTestId
  \/ GuiAddCustomFlag
  \/ GuiRemoveCustomFlag
  \/ GuiToggleFlag
  \/ GuiCopyCommand
  \/ GuiRunZybot
  \/ GuiClose
  \/ BuildCommandFromGuiCall

Spec == Init /\ [][Next]_vars

(* ================================ claims =============================== *)

(* ---- C1 ---- *)

\* C1: build_command called with an empty reference list fails, whatever the
\* variables, path and flags are: it yields an error and no Command.
C1_EmptyReferencesRejected ==
  (call.op = "build_command" /\ call.sttl_ids = <<>>) => ~ret.ok

(* ---- C2 ---- *)

\* C2 as stated: once execute has returned, the working directory is the one
\* the call started in, on every exit path.
C2_CwdRestoredOnEveryPath ==
  (call.op = "execute" /\ ret.ok) => cwd = call.cwd

\* C2 as amended: once execute has returned, the working directory is the one
\* the call started in on every exit path on which the restoring os.getcwd /
\* os.chdir of the finally block does not itself raise; when it raises, the
\* error is swallowed and the process stays in EXECUTION_DIR.
C2_CwdRestoredUnlessRestoreFails ==
  (call.op = "execute" /\ ret.ok) =>
    /\ call.os.restore = "ok" => cwd = call.cwd
    /\ cwd # call.cwd => (call.os.restore # "ok" /\ cwd = EXECUTION_DIR)

\* the tool ran with a non-zero exit code from another directory and the
\* working directory is back where it was
C2_Witness ==
  /\ call.op = "execute" /\ ret.ok
  /\ call.cwd = HOME_DIR /\ ran # <<>> /\ ret.val = 1
  /\ call.os.restore = "ok" /\ cwd = HOME_DIR

(* ---- C3 ---- *)

\* C3: when the tool was invoked, execute returns the child's exit code
\* verbatim, also when restoring the working directory fails.
C3_ExitCodeVerbatim ==
  (call.op = "execute" /\ ran # <<>>) => (ret.ok /\ ret.val = call.os.tool.rc)

\* the tool exited with 1, the restoration failed, and 1 was returned
C3_Witness ==
  /\ call.op = "execute" /\ ran # <<>>
  /\ call.os.restore = "chdir" /\ cwd # call.cwd
  /\ call.os.tool.rc = 1 /\ ret.ok /\ ret.val = 1

(* ---- C4 ---- *)

\* C4: if EXECUTION_DIR does not exist, execute returns 5, leaves the working
\* directory alone and does not invoke the tool.
C4_MissingDirIsEnvError ==
  (call.op = "execute" /\ ~call.os.isdir) =>
    (ret.ok /\ ret.val = ENV_ERROR /\ cwd = call.cwd /\ ran = <<>>)

\* called from another directory with EXECUTION_DIR missing: 5 is returned and
\* the process is still in that directory
C4_Witness ==
  /\ call.op = "execute" /\ ~call.os.isdir
  /\ call.cwd = HOME_DIR /\ cwd = HOME_DIR /\ ret.ok /\ ret.val = ENV_ERROR

(* ---- C7 ---- *)

\* the token has a key (the text before its first colon) that, upper-cased,
\* matches DUT<digits>
HasDeviceKey(kv) ==
  FirstIndex(kv, ":") > 0 /\ DUT_KEY_PATTERN(StrUpper(KeyOf(kv)))

GoodSerial(v) == IsAlnum(v) /\ Len(v) >= MIN_SERIAL_LEN

\* the value is empty or holds whitespace, one final newline after at least
\* one other character aside
ValueBreaksSyntax(v) ==
  LET b == IF v # <<>> /\ v[Len(v)] = "\n" THEN SubSeq(v, 1, Len(v) - 1) ELSE v
  IN  b = <<>> \/ \E i \in 1..Len(b) : b[i] \in WhiteSpace

\* C7 as stated: for a token with a device key, parse_vars succeeds exactly
\* when the value is alphanumeric of length >= 10, storing the upper-cased key
\* and the unchanged value, and fails with a domain error otherwise.
C7_DeviceTokenDomainError ==
  (call.op = "parse_vars" /\ Len(call.raw_tokens) = 1
     /\ HasDeviceKey(call.raw_tokens[1])) =>
    LET kv == call.raw_tokens[1] IN
    IF GoodSerial(ValueOf(kv))
    THEN ret.ok /\ ret.val = << <<StrUpper(KeyOf(kv)), ValueOf(kv)>> >>
    ELSE ~ret.ok /\ ret.exc = "ValidationError" /\ ret.text = "Invalid DUT serial"

\* C7 as amended: for a token with a device key, parse_vars succeeds exactly
\* when the value is alphanumeric of length >= 10, storing the upper-cased key
\* and the unchanged value; otherwise it fails, with the domain error unless
\* the value is empty or holds whitespace, which is the KEY:VALUE syntax error.
\* In a longer sequence a device token with a bad value fails the call, and a
\* call that succeeds stores every device token that way.
C7_DeviceTokenValidation ==
  call.op = "parse_vars" =>
    /\ (Len(call.raw_tokens) = 1 /\ HasDeviceKey(call.raw_tokens[1])) =>
         LET kv == call.raw_tokens[1] IN
         IF GoodSerial(ValueOf(kv))
         THEN ret.ok /\ ret.val = << <<StrUpper(KeyOf(kv)), ValueOf(kv)>> >>
         ELSE /\ ~ret.ok /\ ret.exc = "ValidationError"
              /\ ret.text = IF ValueBreaksSyntax(ValueOf(kv))
                            THEN "Invalid KEY:VALUE format"
                            ELSE "Invalid DUT serial"
    /\ \A i \in 1..Len(call.raw_tokens) :
         HasDeviceKey(call.raw_tokens[i]) =>
           IF GoodSerial(ValueOf(call.raw_tokens[i]))
           THEN ret.ok => ret.val[i] = <<StrUpper(KeyOf(call.raw_tokens[i])),
                                          ValueOf(call.raw_tokens[i])>>
           ELSE ~ret.ok

\* a lower-case device key with a serial of exactly MIN_SERIAL_LEN characters
C7_Witness ==
  /\ call.op = "parse_vars" /\ Len(call.raw_tokens) = 1
  /\ HasDeviceKey(call.raw_tokens[1])
  /\ KeyOf(call.raw_tokens[1]) # StrUpper(KeyOf(call.raw_tokens[1]))
  /\ Len(ValueOf(call.raw_tokens[1])) = MIN_SERIAL_LEN
  /\ ret.ok /\ ret.val[1][1] = StrUpper(KeyOf(call.raw_tokens[1]))

(* ---- C8 ---- *)

\* the token's key, upper-cased, is neither a device key nor in the allow-list
HasUnknownKey(kv) ==
  LET k == StrUpper(KeyOf(kv)) IN
  ~DUT_KEY_PATTERN(k) /\ k \notin ALLOWED_NON_DUT_KEYS

\* C8: a token whose (upper-cased) key is neither a device key nor in the
\* allow-list makes parse_vars fail, whatever its value and whatever the other
\* tokens of the sequence are.
C8_UnknownKeyFails ==
  (call.op = "parse_vars"
     /\ \E i \in 1..Len(call.raw_tokens) : HasUnknownKey(call.raw_tokens[i]))
    => (~ret.ok /\ ret.exc = "ValidationError")

\* a valid token followed by one with an unknown key and a well-formed value
C8_Witness ==
  /\ call.op = "parse_vars" /\ Len(call.raw_tokens) = 2
  /\ ~HasUnknownKey(call.raw_tokens[1])
  /\ HasUnknownKey(call.raw_tokens[2])
  /\ ~ret.ok /\ ret.text = "Unknown variable key"

(* ---- C9 ---- *)

\* the whitespace-separated tokens between "id:(" and the final ")"
BodyTokens(raw) == Split(Strip(BlockBody(Strip(raw))))

WellFormedBlock(raw) ==
  /\ STTL_BLOCK_PATTERN(Strip(raw))
  /\ BodyTokens(raw) # <<>>
  /\ \A i \in 1..Len(BodyTokens(raw)) : TOKEN_PATTERN(BodyTokens(raw)[i])

\* position of the first body token whose canonical id is sid
FirstOccurrence(raw, sid) ==
  CHOOSE k \in 1..Len(BodyTokens(raw)) :
    /\ CanonicalId(BodyTokens(raw)[k]) = sid
    /\ \A j \in 1..(k - 1) : CanonicalId(BodyTokens(raw)[j]) # sid

\* C9: on a well-formed block parse_sttl_block succeeds (a repeated id is no
\* error) and returns each canonical id of the body exactly once, ordered by
\* first occurrence.
C9_StrictOrderedUnique ==
  (call.op = "parse_sttl_block" /\ WellFormedBlock(call.raw)) =>
    /\ ret.ok
    /\ \A i, j \in 1..Len(ret.val) : i # j => ret.val[i] # ret.val[j]
    /\ {ret.val[i] : i \in 1..Len(ret.val)}
         = {CanonicalId(BodyTokens(call.raw)[k]) : k \in 1..Len(BodyTokens(call.raw))}
    /\ \A i, j \in 1..Len(ret.val) :
         i < j => FirstOccurrence(call.raw, ret.val[i]) < FirstOccurrence(call.raw, ret.val[j])

\* a body "a a b": the repeated id is dropped and two ids are returned
C9_Witness ==
  /\ call.op = "parse_sttl_block" /\ WellFormedBlock(call.raw)
  /\ Len(BodyTokens(call.raw)) = 3
  /\ BodyTokens(call.raw)[1] = BodyTokens(call.raw)[2]
  /\ ret.ok /\ Len(ret.val) = 2

(* ---- C10 ---- *)

\* the stripped text does not start with id:( (any letter case) and end with )
LacksWrapper(raw) ==
  LET r == Strip(raw) IN
  ~(/\ Len(r) >= 5
    /\ StrLower(SubSeq(r, 1, 4)) = <<"i","d",":","(">>
    /\ r[Len(r)] = ")")

\* C10: parse_sttl_block fails as a whole, returning no ids, when the wrapper
\* is missing, the body is empty, or any one body token is malformed.
C10_StrictAllOrNothing ==
  (call.op = "parse_sttl_block"
     /\ \/ LacksWrapper(call.raw)
        \/ BodyTokens(call.raw) = <<>>
        \/ \E i \in 1..Len(BodyTokens(call.raw)) : ~TOKEN_PATTERN(BodyTokens(call.raw)[i]))
    => (~ret.ok /\ ret.exc = "ParseError")

\* a wrapped body whose first token is valid and whose last is malformed
C10_Witness ==
  /\ call.op = "parse_sttl_block" /\ ~LacksWrapper(call.raw)
  /\ Len(BodyTokens(call.raw)) >= 2
  /\ TOKEN_PATTERN(BodyTokens(call.raw)[1])
  /\ ~TOKEN_PATTERN(BodyTokens(call.raw)[Len(BodyTokens(call.raw))])
  /\ ~ret.ok /\ ret.text = "Malformed STTL token"

(* ---- C5 ---- *)

\* some token of the sequence is no KEY:VALUE pair, is a device token with a
\* bad serial, or has a key that is neither a device key nor allowed
SomeVarInvalid(raw_tokens) ==
  \E i \in 1..Len(raw_tokens) :
    LET kv == raw_tokens[i] IN
    \/ ~VAR_PAIR_PATTERN(kv)
    \/ HasDeviceKey(kv) /\ ~GoodSerial(ValueOf(kv))
    \/ HasUnknownKey(kv)

\* some specification cannot be tokenized or holds a reserved marker
SomeFlagInvalid(flag_specs) ==
  \E i \in 1..Len(flag_specs) :
    /\ Strip(flag_specs[i]) # <<>>
    /\ LET split == shlex_split(flag_specs[i]) IN
       \/ ~split.ok
       \/ \E j \in 1..Len(split.val) : split.val[j] \in RESERVED_MARKERS

\* the one-shot run has no readable reference source or the text it holds is
\* no well-formed block
CliBlockInvalid(sttl) ==
  \/ sttl.kind \in {"none", "unreadable"}
  \/ sttl.kind = "block" /\ (sttl.text = <<>> \/ ~WellFormedBlock(sttl.text))
  \/ sttl.kind = "file" /\ ~WellFormedBlock(Strip(sttl.text))

\* C5: a one-shot run exits with a status that reflects its outcome: 3 for a
\* variable or flag validation error, 2 for a reference-block or
\* reference-source error, 5 for an environment error, and otherwise the
\* tool's own exit code when execution was requested.
C5_ExitStatusReflectsOutcome ==
  (call.op = "main" /\ call.no_color_env /\ ~call.args.show_formats) =>
    LET a == call.args
        bad_input == a.var = <<>> \/ SomeVarInvalid(a.var) \/ SomeFlagInvalid(a.flag)
        bad_block == CliBlockInvalid(a.sttl)
    IN
    /\ (bad_input /\ ~bad_block) => exit_status = Some(3)
    /\ (bad_block /\ ~bad_input) => exit_status = Some(2)
    /\ (bad_input /\ bad_block) => exit_status \in {Some(2), Some(3)}
    /\ (~bad_input /\ ~bad_block /\ a.execute) =>
         /\ ~call.os.isdir => exit_status = Some(ENV_ERROR)
         /\ ran # <<>> => exit_status = Some(call.os.tool.rc)

(* ---- C6 ---- *)

\* C6: an invalid variable token, reference block or flag specification aborts
\* the construction: parse_vars, parse_sttl_block, parse_flags and
\* build_command return an error and no Command, and a one-shot run or a
\* generate pass of the menu given such an input prints no command, runs
\* nothing and remembers no new command.
C6_ValidationFailureAborts ==
  /\ (call.op = "parse_vars" /\ SomeVarInvalid(call.raw_tokens)) => ~ret.ok
  /\ (call.op = "parse_sttl_block" /\ ~WellFormedBlock(call.raw)) => ~ret.ok
  /\ (call.op = "parse_flags" /\ SomeFlagInvalid(call.flag_specs)) => ~ret.ok
  /\ (call.op = "build_command"
        /\ (SomeVarInvalid(call.vars_tokens) \/ SomeFlagInvalid(call.flags))) => ~ret.ok
  /\ (call.op = "main"
        /\ \/ SomeVarInvalid(call.args.var)
           \/ SomeFlagInvalid(call.args.flag)
           \/ CliBlockInvalid(call.args.sttl)) =>
       (shown = <<>> /\ ran = <<>> /\ cwd = call.cwd)
  /\ (call.op = "menu" /\ call.choice = "1"
        /\ \/ SomeVarInvalid(Split(Strip(call.inp.vars_input)))
           \/ ~WellFormedBlock(call.inp.sttl_raw)
           \/ SomeFlagInvalid(<<call.inp.flag_raw>>)) =>
       /\ shown = <<>> /\ ran = <<>> /\ cwd = call.cwd
       /\ pc = "continue" => last_command = call.last_command

\* a generate pass of the menu with valid variables and a well-formed block
\* but a reserved marker among the flags, asked to execute: nothing is printed
\* or run and the command remembered before is still the remembered one
C6_Witness ==
  /\ call.op = "menu" /\ call.choice = "1"
  /\ call.inp.vars_input # <<>>
  /\ ~SomeVarInvalid(Split(Strip(call.inp.vars_input)))
  /\ WellFormedBlock(call.inp.sttl_raw)
  /\ SomeFlagInvalid(<<call.inp.flag_raw>>)
  /\ call.last_command # None
  /\ ~ret.ok /\ ret.exc = "ValidationError"
  /\ shown = <<>> /\ ran = <<>> /\ last_command = call.last_command

(* ---- C11 ---- *)

\* positions lo..hi of s hold a maximal run of digits
IsMaximalDigitRun(s, lo, hi) ==
  /\ lo <= hi
  /\ \A k \in lo..hi : s[k] \in Digits
  /\ lo = 1 \/ s[lo - 1] \notin Digits
  /\ hi = Len(s) \/ s[hi + 1] \notin Digits

\* the starts of the maximal digit runs of 4 or more digits that read digits
LongRunStarts(s, digits) ==
  { lo \in 1..Len(s) :
      \E hi \in lo..Len(s) :
        /\ IsMaximalDigitRun(s, lo, hi)
        /\ hi - lo + 1 >= 4
        /\ SubSeq(s, lo, hi) = digits }

\* the digit strings of the maximal runs of 4 or more digits
LongRuns(s) ==
  { SubSeq(s, lo, hi) : lo \in 1..Len(s), hi \in 1..Len(s) } \cap
  { d \in { SubSeq(s, lo, hi) : lo \in 1..Len(s), hi \in 1..Len(s) } :
      LongRunStarts(s, d) # {} }

FirstStart(s, sid) ==
  LET d == SubSeq(sid, Len(STTL_PREFIX) + 1, Len(sid))
      starts == LongRunStarts(s, d)
  IN CHOOSE lo \in starts : \A o \in starts : lo <= o

\* C11: parse_sttl_ids_any never fails; it returns STTL-<digits> for every
\* maximal run of 4 or more digits of the text, each once, ordered by first
\* appearance; shorter runs are ignored and no run gives the empty list.
C11_LooseNeverFails ==
  call.op = "parse_sttl_ids_any" =>
    /\ ret.ok
    /\ \A i, j \in 1..Len(ret.val) : i # j => ret.val[i] # ret.val[j]
    /\ {ret.val[i] : i \in 1..Len(ret.val)}
         = {STTL_PREFIX \o d : d \in LongRuns(call.raw)}
    /\ \A i, j \in 1..Len(ret.val) :
         i < j => FirstStart(call.raw, ret.val[i]) < FirstStart(call.raw, ret.val[j])

\* a text with a run shorter than 4 digits and a long run that appears twice:
\* the short run gives nothing and the repeated run gives one id
C11_Witness ==
  /\ call.op = "parse_sttl_ids_any"
  /\ \E lo \in 1..Len(call.raw), hi \in 1..Len(call.raw) :
       IsMaximalDigitRun(call.raw, lo, hi) /\ hi - lo + 1 < 4
  /\ \E d \in LongRuns(call.raw) : Cardinality(LongRunStarts(call.raw, d)) >= 2
  /\ ret.ok /\ Len(ret.val) = 1

(* ---- C12 ---- *)

\* the specifications that are not blank, in input order
NonBlankSpecs(flag_specs) == SelectSeq(flag_specs, LAMBDA f : Strip(f) # <<>>)

Tokenizable(spec) == shlex_split(spec).ok

HasReserved(spec) ==
  Tokenizable(spec) /\ \E j \in 1..Len(shlex_split(spec).val) :
                         shlex_split(spec).val[j] \in RESERVED_MARKERS

\* the tokens of the tokenizable specifications, flattened in input order
RECURSIVE FlatTokens(_)
FlatTokens(specs) ==
  IF specs = <<>> THEN <<>>
  ELSE (IF Tokenizable(Head(specs)) THEN shlex_split(Head(specs)).val ELSE <<>>)
         \o FlatTokens(Tail(specs))

\* C12 as stated: parse_flags never returns a reserved marker; if a token
\* produced from any specification is -v or -t the call fails naming that
\* token, and otherwise it returns the tokens of all non-blank specifications
\* flattened in input order.
C12_ReservedRejectedElseTokens ==
  call.op = "parse_flags" =>
    LET specs == NonBlankSpecs(call.flag_specs) IN
    /\ ret.ok => \A j \in 1..Len(ret.val) : ret.val[j] \notin RESERVED_MARKERS
    /\ IF \E i \in 1..Len(specs) : HasReserved(specs[i])
       THEN ~ret.ok /\ ret.exc = "ValidationError" /\ ret.arg \in RESERVED_MARKERS
       ELSE ret.ok /\ ret.val = FlatTokens(specs)

\* the first non-blank specification that cannot be tokenized or holds a
\* reserved marker; 0 when there is none
FirstBadSpec(specs) ==
  IF \E i \in 1..Len(specs) : ~Tokenizable(specs[i]) \/ HasReserved(specs[i])
  THEN CHOOSE i \in 1..Len(specs) :
         /\ ~Tokenizable(specs[i]) \/ HasReserved(specs[i])
         /\ \A k \in 1..(i - 1) : Tokenizable(specs[k]) /\ ~HasReserved(specs[k])
  ELSE 0

\* the first reserved marker among the tokens of a specification
FirstReserved(spec) ==
  LET toks == shlex_split(spec).val
      j == CHOOSE j \in 1..Len(toks) :
             toks[j] \in RESERVED_MARKERS
             /\ \A k \in 1..(j - 1) : toks[k] \notin RESERVED_MARKERS
  IN toks[j]

\* C12 as amended: parse_flags never returns a reserved marker.  The non-blank
\* specifications are tokenized in input order; the first one that cannot be
\* tokenized (unbalanced quote, trailing backslash) fails the call with the
\* tokenizer's ValueError, the first one that holds -v or -t fails it with a
\* ValidationError naming that token, and when there is neither the tokens of
\* all non-blank specifications are returned flattened in input order.
C12_ReservedOrUntokenizableRejected ==
  call.op = "parse_flags" =>
    LET specs == NonBlankSpecs(call.flag_specs)
        b == FirstBadSpec(specs)
    IN
    /\ ret.ok => \A j \in 1..Len(ret.val) : ret.val[j] \notin RESERVED_MARKERS
    /\ IF b = 0 THEN ret.ok /\ ret.val = FlatTokens(specs)
       ELSE IF Tokenizable(specs[b])
       THEN ~ret.ok /\ ret.exc = "ValidationError" /\ ret.arg = FirstReserved(specs[b])
       ELSE ~ret.ok /\ ret.exc = "ValueError"

\* a tokenizable specification followed by one whose quoted token is -t: the
\* call fails naming -t
C12_Witness ==
  /\ call.op = "parse_flags" /\ Len(call.flag_specs) = 2
  /\ Tokenizable(call.flag_specs[1]) /\ ~HasReserved(call.flag_specs[1])
  /\ Len(shlex_split(call.flag_specs[1]).val) = 2
  /\ HasReserved(call.flag_specs[2])
  /\ call.flag_specs[2] # <<"-","t">>
  /\ ~ret.ok /\ ret.arg = <<"-","t">>

(* ---- C13 ---- *)

\* C13: build_args returns zybot, the flag tokens in order, -v KEY:VALUE for
\* each variable in order, -t <reference>* for each reference in order, and
\* the path as the final token exactly when a path is present.
C13_BuildArgsLayout ==
  call.op = "build_args" =>
    LET cmd == call.command
        args == ret.val
        nf == Len(cmd.flags)
        nv == Len(cmd.vars)
        ns == Len(cmd.sttls)
        has_path == cmd.path # None /\ cmd.path[1] # <<>>
    IN
    /\ ret.ok
    /\ Len(args) = 1 + nf + 2 * nv + 2 * ns + (IF has_path THEN 1 ELSE 0)
    /\ args[1] = <<"z","y","b","o","t">>
    /\ \A i \in 1..nf : args[1 + i] = cmd.flags[i]
    /\ \A i \in 1..nv :
         /\ args[1 + nf + 2 * i - 1] = <<"-","v">>
         /\ args[1 + nf + 2 * i] = cmd.vars[i][1] \o <<":">> \o cmd.vars[i][2]
    /\ \A i \in 1..ns :
         /\ args[1 + nf + 2 * nv + 2 * i - 1] = <<"-","t">>
         /\ args[1 + nf + 2 * nv + 2 * i] = cmd.sttls[i] \o <<"*">>
    /\ has_path => args[Len(args)] = cmd.path[1]

\* flags, two variables, two references and a path: nine tokens after zybot
C13_Witness ==
  /\ call.op = "build_args"
  /\ Len(call.command.flags) = 2 /\ Len(call.command.vars) = 2
  /\ Len(call.command.sttls) = 2
  /\ call.command.path # None /\ call.command.path[1] # <<>>
  /\ ret.ok /\ Len(ret.val) = 12

(* ---- C14 ---- *)

\* the argument list with every token that follows a -t wrapped in quotes
QuotedAfterMarker(args) ==
  [ i \in 1..Len(args) |->
      IF i > 1 /\ args[i - 1] = <<"-","t">>
      THEN <<"\"">> \o args[i] \o <<"\"">> ELSE args[i] ]

C15_LongRenderingWrapped ==
  (call.op = "display_command" /\ Len(ret.val) > HR_WIDTH) =>
    \E i \in 1..Len(ret.val) : ret.val[i] = "\n"

(* ---- C16 ---- *)

C17_RejectionNamesOffender ==
  /\ (call.op = "parse_vars" /\ call.raw_tokens # <<>> /\ ~ret.ok) =>
       \E i \in 1..Len(call.raw_tokens) :
         ret.arg \in {call.raw_tokens[i], KeyOf(call.raw_tokens[i])}
  /\ (call.op = "parse_sttl_block" /\ call.raw # <<>> /\ ~ret.ok) =>
       ret.arg # <<>> /\ ret.arg \in {call.raw, Strip(call.raw)} \cup
                                     {Split(call.raw)[i] : i \in 1..Len(Split(call.raw))}
                                     \cup {BodyTokens(call.raw)[i] : i \in 1..Len(BodyTokens(call.raw))}
  /\ (call.op = "parse_flags" /\ ~ret.ok) =>
       ret.arg # <<>> /\ \E i \in 1..Len(call.flag_specs) :
                           \/ ret.arg = call.flag_specs[i]
                           \/ /\ Tokenizable(call.flag_specs[i])
                              /\ \E j \in 1..Len(shlex_split(call.flag_specs[i]).val) :
                                   ret.arg = shlex_split(call.flag_specs[i]).val[j]

(* ---- C18 ---- *)

\* the token passes every test of the parse_vars loop body
ValidVarToken(kv) ==
  /\ VAR_PAIR_PATTERN(kv)
  /\ IF DUT_KEY_PATTERN(StrUpper(KeyOf(kv)))
     THEN IsAlnum(ValueOf(kv)) /\ Len(ValueOf(kv)) >= MIN_SERIAL_LEN
     ELSE StrUpper(KeyOf(kv)) \in ALLOWED_NON_DUT_KEYS

\* C18: parse_vars on an empty sequence returns the empty list when
\* allow_empty is set and fails with "No variables provided" otherwise; on a
\* non-empty sequence of valid tokens it returns one pair per token, in input
\* order, duplicates included.
C18_EmptyAndOrderPreserved ==
  call.op = "parse_vars" =>
    /\ (call.raw_tokens = <<>> /\ call.allow_empty) => (ret.ok /\ ret.val = <<>>)
    /\ (call.raw_tokens = <<>> /\ ~call.allow_empty) =>
         (~ret.ok /\ ret.exc = "ValidationError" /\ ret.text = "No variables provided")
    /\ (call.raw_tokens # <<>>
          /\ \A i \in 1..Len(call.raw_tokens) : ValidVarToken(call.raw_tokens[i])) =>
         /\ ret.ok
         /\ Len(ret.val) = Len(call.raw_tokens)
         /\ \A i \in 1..Len(call.raw_tokens) :
              ret.val[i] = <<StrUpper(KeyOf(call.raw_tokens[i])), ValueOf(call.raw_tokens[i])>>

\* the same valid token twice: two equal pairs come back
C18_Witness ==
  /\ call.op = "parse_vars" /\ Len(call.raw_tokens) = 2
  /\ call.raw_tokens[1] = call.raw_tokens[2]
  /\ ValidVarToken(call.raw_tokens[1])
  /\ ret.ok /\ Len(ret.val) = 2 /\ ret.val[1] = ret.val[2]

(* ---- C19 ---- *)

\* the exit code of the most recent execute of the generate flow: the first
\* execution, then one per "y" to "Re-run this command again?", the loop
\* ending at the first non-zero code
RECURSIVE LastGenerateRc(_, _, _, _)
LastGenerateRc(command, oss, dir, rc) ==
  IF oss = <<>> \/ rc # 0 THEN rc
  ELSE LET r == execute(command, dir, Head(oss)) IN
       IF ~r.ret.ok THEN ENV_ERROR
       ELSE LastGenerateRc(command, Tail(oss), r.cwd, r.ret.val)

\* C19: a pass through the generate flow that builds a command and returns to
\* the main menu remembers that command when its most recent execution in the
\* flow returned 0, and otherwise (execution declined, or failed) leaves the
\* remembered command as it was, so that 'Re-run last command' only ever
\* offers a command whose latest execution in the generate flow succeeded.
C19_RememberedOnlyOnSuccess ==
  (pc = "continue" /\ call.op = "menu" /\ call.choice = "1" /\ shown # <<>>) =>
    IF call.inp.exec_ans
         /\ last_command # None
         /\ pretty(last_command[1]) = shown[1]
         /\ LastGenerateRc(last_command[1], <<call.inp.os>> \o call.inp.reruns,
                           call.cwd, 0) = 0
    THEN TRUE
    ELSE last_command = call.last_command

(* ---- C20 ---- *)

\* C20: whenever 'Run zybot' hands a command to the shell, that command is the
\* text of the read-only command field at that moment (the text 'Copy' puts
\* on the clipboard), whatever add/remove device, parse, remove test id,
\* add/remove custom flag and checkbox operations came before.
C20_RunsWhatIsShown ==
  (pc = "gui" /\ call.op = "gui" /\ call.handler = "run_zybot" /\ ran # <<>>) =>
    ran = <<gui[1].command_var>>

(* ---- C21 ---- *)

\* C21: in every state of the window a non-empty command field implies a
\* non-empty list of test ids, and whatever 'Run zybot' hands to the shell was
\* built from a non-empty list of test ids, so it carries a -t reference.
C21_ShownCommandHasTestIds ==
  pc = "gui" =>
    /\ gui[1].command_var # <<>> => gui[1].test_ids # <<>>
    /\ (call.handler = "run_zybot" /\ ran # <<>>) =>
         /\ gui[1].test_ids # <<>>
         /\ \E i \in 1..Len(ran[1]) : StartsWithAt(ran[1], i, <<" ","-","t"," ">>)

\* the last test id has just been removed and the command field is empty
C21_Witness ==
  /\ pc = "gui" /\ call.handler = "remove_test_id"
  /\ gui[1].test_ids = <<>> /\ gui[1].command_var = <<>>
  /\ gui[1].dut_vars # <<>>

(* ---- C22 ---- *)

\* C22: for every command build_command returns, and for every command
\* execute runs, the string handed to the shell splits into exactly the
\* argument list build_args, also when a flag token or the path holds
\* whitespace.
C22_ShellSeesBuildArgs ==
  /\ (call.op = "build_command" /\ ret.ok) =>
       ShellWords(display_command(ret.val)) = Return(build_args(ret.val))
  /\ (call.op = "execute" /\ ran # <<>>) =>
       ShellWords(ran[1]) = Return(build_args(call.command))

(* ---- C23 ---- *)

\* the number of "-t" entries of an argument list
RECURSIVE CountRefs(_)
CountRefs(args) ==
  IF args = <<>> THEN 0
  ELSE (IF Head(args) = <<"-","t">> THEN 1 ELSE 0) + CountRefs(Tail(args))

\* C23: when build_command_from_gui hands a valid reference block to
\* build_command, the references of the command it gets back are exactly the
\* canonical ids parse_sttl_block returns for that block, and build_args has
\* one -t entry per distinct id.
C23_BlockStringGivesCanonicalIds ==
  (call.op = "build_command_from_gui" /\ ret.ok /\ ret.val # None) =>
    LET ids == parse_sttl_block(Strip(call.sttl_block)).val IN
    /\ ret.val[1].sttls = ids
    /\ CountRefs(build_args(ret.val[1])) = Len(ids)

====
